---- MODULE Spec2Model ----
(***************************************************************************)
(* Tool execution and sandboxing subsystem of commitai:                    *)
(*   src/src/tools/filesystem.py  sandboxed list/read/search tools         *)
(*   src/src/tools/git.py         diff-position scan, PR review comments   *)
(*   src/src/tools/factory.py     ToolFactory registry                     *)
(* Text is modelled as a sequence of one-character strings, so that path   *)
(* normalisation, glob matching, trimming and header parsing are computed  *)
(* character by character as the Python code computes them.                *)
(***************************************************************************)
EXTENDS Integers, Sequences, FiniteSets, TLC

VARIABLES
    fs,         \* filesystem: absolute segment path -> "file" | "dir"
    unreadable, \* set of segment paths whose listing/opening is refused
    fsCfg,      \* the tool configuration a sandbox tool was built from
    fsCall,     \* last sandbox tool invocation (tool name and arguments)
    fsResult,   \* what that invocation returned
    fsIO        \* filesystem accesses that invocation performed, in order

fsVars == <<fs, unreadable, fsCfg, fsCall, fsResult, fsIO>>

VARIABLES
    prFiles,        \* what pr.get_files() yields: a failure, or the changed files
    filePath,       \* the payload's file
    line,           \* the payload's line: the target line in the new file
    scanPc,         \* "start", "scan" (inside the loop over the patch) or "done"
    patchLines,     \* patch.splitlines() of the selected file
    idx,            \* index of the next patch line the loop takes
    pos,            \* pos
    newLineCur,     \* new_line_cur: None or an integer
    reviewPosition  \* what _compute_review_position returned, once done

diffVars == <<prFiles, filePath, line, scanPc, patchLines, idx, pos, newLineCur, reviewPosition>>

VARIABLES
    environ,    \* os.environ: GITHUB_TOKEN, GITHUB_REPOSITORY, GITHUB_EVENT_PATH
    eventFile,  \* the file GITHUB_EVENT_PATH names: missing, unreadable, or its JSON
    ghCall,     \* last review tool invocation: tool, input, and what the API will answer
    ghResult,   \* what that invocation returned, or the exception that left it
    apiLog,     \* code-hosting API calls that invocation made, in order
    prComments  \* comments that invocation created on the pull request

ghVars == <<environ, eventFile, ghCall, ghResult, apiLog, prComments>>

VARIABLES
    registry,       \* ToolFactory._registry: type -> name -> builder
    registered,     \* how many register calls were made
    registerLog,    \* the register calls made so far, in order
    factoryCall,    \* last create call: the tool specification
    factoryResult   \* what it returned, or the error it raised

factoryVars == <<registry, registered, registerLog, factoryCall, factoryResult>>

VARIABLES
    repo,       \* what workdir is on disk: the directory, its .git entry, commits, base ref
    gitCall,    \* last version-control tool invocation
    gitResult,  \* what that invocation returned
    spawned,    \* the subprocesses that invocation spawned, in order, with their timeouts
    lastRun,    \* the last _run_git_command call of that invocation: outcome and triple
    earlier     \* the invocation before it: tool, and whether it got past validation

gitVars == <<repo, gitCall, gitResult, spawned, lastRun, earlier>>

VARIABLES
    instSpec,   \* the tool specification both tool instances were built from
    tools,      \* the two built tools: what each closes over
    observed    \* per tool: the calls made so far, each with what it returned

instVars == <<instSpec, tools, observed>>

VARIABLES
    dirEntries, \* entries: the sorted names of the directory being listed
    entIdx,     \* index of the next entry the loop of list_directory takes
    entCount,   \* count
    listLines,  \* the entry lines appended to lines so far (after the header)
    listPc      \* "idle", "loop" (inside the loop over entries) or "done"

listVars == <<dirEntries, entIdx, entCount, listLines, listPc>>

VARIABLES
    agentArgs,      \* the command line: model and --temperature
    agentPc,        \* "idle", "main" (arguments validated), "exit" or "llm"
    llmTemperature, \* the temperature ChatOpenAI was constructed with
    exitCode        \* the exit code, once the program ended

agentVars == <<agentArgs, agentPc, llmTemperature, exitCode>>

vars == <<fsVars, diffVars, ghVars, factoryVars, gitVars, instVars, listVars, agentVars>>

\* what a step of one subsystem leaves alone
notFs == <<diffVars, ghVars, factoryVars, gitVars, instVars, listVars, agentVars>>
notDiff == <<fsVars, ghVars, factoryVars, gitVars, instVars, listVars, agentVars>>
notGh == <<fsVars, diffVars, factoryVars, gitVars, instVars, listVars, agentVars>>
notFactory == <<fsVars, diffVars, ghVars, gitVars, instVars, listVars, agentVars>>
notGit == <<fsVars, diffVars, ghVars, factoryVars, instVars, listVars, agentVars>>
notInst == <<fsVars, diffVars, ghVars, factoryVars, gitVars, listVars, agentVars>>
notList == <<fsVars, diffVars, ghVars, factoryVars, gitVars, instVars, agentVars>>
notAgent == <<fsVars, diffVars, ghVars, factoryVars, gitVars, instVars, listVars>>

\* Python values whose type the code tests
None == [t |-> "none"]
PyInt(n) == [t |-> "int", v |-> n]
PyStr(s) == [t |-> "str", v |-> s]

\* an exception that leaves the called function
Raise(exc) == [kind |-> "raise", tag |-> exc]

(***************************************************************************)
(* Generic text helpers                                                    *)
(***************************************************************************)
Min2(a, b) == IF a <= b THEN a ELSE b

StartsWith(s, p) == Len(s) >= Len(p) /\ SubSeq(s, 1, Len(p)) = p

RECURSIVE Flatten(_)
Flatten(ss) == IF ss = <<>> THEN <<>> ELSE Head(ss) \o Flatten(Tail(ss))

\* sep.join(parts)
RECURSIVE JoinWith(_, _)
JoinWith(sep, parts) ==
    IF parts = <<>> THEN <<>>
    ELSE IF Len(parts) = 1 THEN parts[1]
    ELSE parts[1] \o sep \o JoinWith(sep, Tail(parts))

\* s.split(c): the pieces between occurrences of the character c
RECURSIVE SplitAcc(_, _, _)
SplitAcc(s, c, cur) ==
    IF s = <<>> THEN <<cur>>
    ELSE IF Head(s) = c THEN <<cur>> \o SplitAcc(Tail(s), c, <<>>)
    ELSE SplitAcc(Tail(s), c, Append(cur, Head(s)))

Split(s, c) == SplitAcc(s, c, <<>>)

\* ASCII order of the characters used in names
Ord(c) ==
    CASE c = " " -> 32 [] c = "!" -> 33 [] c = "*" -> 42 [] c = "." -> 46
      [] c = "/" -> 47 [] c = "0" -> 48 [] c = "1" -> 49 [] c = "2" -> 50
      [] c = "3" -> 51 [] c = "4" -> 52 [] c = "5" -> 53 [] c = "6" -> 54
      [] c = "7" -> 55 [] c = "8" -> 56 [] c = "9" -> 57 [] c = "?" -> 63 [] c = "[" -> 91 [] c = "]" -> 93
      [] c = "a" -> 97 [] c = "b" -> 98 [] c = "k" -> 107 [] c = "s" -> 115
      [] c = "w" -> 119 [] c = "x" -> 120 [] OTHER -> 127

\* Python's str ordering: lexicographic by code point
RECURSIVE StrLess(_, _)
StrLess(a, b) ==
    IF b = <<>> THEN FALSE
    ELSE IF a = <<>> THEN TRUE
    ELSE IF Head(a) = Head(b) THEN StrLess(Tail(a), Tail(b))
    ELSE Ord(Head(a)) < Ord(Head(b))

\* sorted(names)
RECURSIVE Sorted(_)
Sorted(S) ==
    IF S = {} THEN <<>>
    ELSE LET m == CHOOSE x \in S : \A y \in S \ {x} : StrLess(x, y)
         IN <<m>> \o Sorted(S \ {m})

(***************************************************************************)
(* posixpath as used by filesystem.py                                      *)
(***************************************************************************)
Slash == <<"/">>
CurDir == <<".">>
ParDir == <<".", ".">>

IsAbs(p) == StartsWith(p, Slash)

\* os.path.join(a, b)
PathJoin(a, b) ==
    IF IsAbs(b) THEN b
    ELSE IF a = <<>> \/ a[Len(a)] = "/" THEN a \o b
    ELSE a \o Slash \o b

\* the component loop of posixpath.normpath
RECURSIVE NormComps(_, _, _)
NormComps(comps, initialSlashes, acc) ==
    IF comps = <<>> THEN acc
    ELSE LET comp == Head(comps)
             rest == Tail(comps)
         IN IF comp = <<>> \/ comp = CurDir THEN NormComps(rest, initialSlashes, acc)
            ELSE IF \/ comp # ParDir
                    \/ (initialSlashes = 0 /\ acc = <<>>)
                    \/ (acc # <<>> /\ acc[Len(acc)] = ParDir)
                 THEN NormComps(rest, initialSlashes, Append(acc, comp))
            ELSE IF acc # <<>>
                 THEN NormComps(rest, initialSlashes, SubSeq(acc, 1, Len(acc) - 1))
            ELSE NormComps(rest, initialSlashes, acc)

\* os.path.normpath(path)
NormPath(path) ==
    IF path = <<>> THEN CurDir
    ELSE LET initialSlashes ==
                 IF ~IsAbs(path) THEN 0
                 ELSE IF StartsWith(path, <<"/", "/">>) /\ ~StartsWith(path, <<"/", "/", "/">>)
                      THEN 2 ELSE 1
             body == JoinWith(Slash, NormComps(Split(path, "/"), initialSlashes, <<>>))
             out == (IF initialSlashes = 2 THEN <<"/", "/">>
                     ELSE IF initialSlashes = 1 THEN Slash ELSE <<>>) \o body
         IN IF out = <<>> THEN CurDir ELSE out

\* the process's current directory, which os.path.abspath joins a relative path to
Cwd == Slash

\* _abspath(path) = os.path.abspath(os.path.normpath(path))
AbsPath(path) ==
    LET n == NormPath(path)
    IN NormPath(IF IsAbs(n) THEN n ELSE PathJoin(Cwd, n))

\* the non-empty, non-'.' components os.path.commonpath compares
RECURSIVE DropEmpty(_)
DropEmpty(comps) ==
    IF comps = <<>> THEN <<>>
    ELSE IF Head(comps) = <<>> \/ Head(comps) = CurDir THEN DropEmpty(Tail(comps))
    ELSE <<Head(comps)>> \o DropEmpty(Tail(comps))

Comps(p) == DropEmpty(Split(p, "/"))

RECURSIVE CommonPrefix(_, _)
CommonPrefix(a, b) ==
    IF a = <<>> \/ b = <<>> \/ Head(a) # Head(b) THEN <<>>
    ELSE <<Head(a)>> \o CommonPrefix(Tail(a), Tail(b))

\* os.path.commonpath([a, b]); "error" stands for the ValueError raised on a
\* mix of absolute and relative paths
CommonPath(a, b) ==
    IF IsAbs(a) # IsAbs(b) THEN <<"error">>
    ELSE (IF IsAbs(a) THEN Slash ELSE <<>>) \o JoinWith(Slash, CommonPrefix(Comps(a), Comps(b)))

\* faulty variant: containment by string prefix instead of by path segments
EnsureWithinByStringPrefix(base, candidate) == StartsWith(candidate, base)

\* _ensure_within(base, candidate)
EnsureWithin(base, candidate) ==
    LET baseCp == CommonPath(base, base)
        candCp == CommonPath(base, candidate)
    IN candCp # <<"error">> /\ baseCp = candCp

\* os.path.relpath(path, start) for absolute normalised arguments
RelPath(path, start) ==
    LET ps == Comps(path)
        ss == Comps(start)
        i == Len(CommonPrefix(ss, ps))
        ups == [k \in 1..(Len(ss) - i) |-> ParDir]
        relList == ups \o SubSeq(ps, i + 1, Len(ps))
    IN IF relList = <<>> THEN CurDir ELSE JoinWith(Slash, relList)

\* os.path.basename(p)
BaseName(p) == LET parts == Split(p, "/") IN parts[Len(parts)]

(***************************************************************************)
(* fnmatch.fnmatch(name, pat) on POSIX: '*', '?', '[seq]', '[!seq]' and    *)
(* literals, matched against the whole name ('*' and '?' also match '/').  *)
(* Character ranges (a-z) are not modelled; '-' is not in the alphabet.    *)
(***************************************************************************)
\* index of the ']' closing the class opened at pat[j], or 0 when unclosed
RECURSIVE ClassScan(_, _)
ClassScan(pat, k) ==
    IF k > Len(pat) THEN 0
    ELSE IF pat[k] = "]" THEN k
    ELSE ClassScan(pat, k + 1)

ClassEnd(pat, j) ==
    LET j1 == IF j + 1 <= Len(pat) /\ pat[j + 1] = "!" THEN j + 2 ELSE j + 1
        j2 == IF j1 <= Len(pat) /\ pat[j1] = "]" THEN j1 + 1 ELSE j1
    IN ClassScan(pat, j2)

RECURSIVE FnMatchFrom(_, _, _, _)
FnMatchFrom(s, i, pat, j) ==
    IF j > Len(pat) THEN i > Len(s)
    ELSE IF pat[j] = "*"
         THEN FnMatchFrom(s, i, pat, j + 1) \/ (i <= Len(s) /\ FnMatchFrom(s, i + 1, pat, j))
    ELSE IF pat[j] = "?"
         THEN i <= Len(s) /\ FnMatchFrom(s, i + 1, pat, j + 1)
    ELSE IF pat[j] = "[" /\ ClassEnd(pat, j) # 0
         THEN LET e == ClassEnd(pat, j)
                  neg == pat[j + 1] = "!"
                  members == {pat[k] : k \in (IF neg THEN j + 2 ELSE j + 1)..(e - 1)}
              IN /\ i <= Len(s)
                 /\ (s[i] \in members) # neg
                 /\ FnMatchFrom(s, i + 1, pat, e + 1)
    ELSE i <= Len(s) /\ s[i] = pat[j] /\ FnMatchFrom(s, i + 1, pat, j + 1)

FnMatch(name, pat) == FnMatchFrom(name, 1, pat, 1)

\* faulty variant: only the full relative path is matched, not the basename
IsDeniedFullPathOnly(relPath, denyPatterns) ==
    \E k \in 1..Len(denyPatterns) : FnMatch(relPath, denyPatterns[k])

\* _is_denied(rel_path, deny_patterns)
IsDenied(relPath, denyPatterns) ==
    LET base == BaseName(relPath)
    IN \E k \in 1..Len(denyPatterns) :
           FnMatch(relPath, denyPatterns[k]) \/ FnMatch(base, denyPatterns[k])

(***************************************************************************)
(* The filesystem the sandbox tools run against                            *)
(***************************************************************************)
A == <<"a">>
K == <<"k">>
S == <<"s">>
W == <<"w">>
WX == <<"w", "x">>
NL == "\n"

Line1 == <<" ", "x", "b", NL>>
Line2 == <<"b", NL>>
Line3 == <<"x", " ">>

Dir == [kind |-> "dir", lines |-> <<>>]
File(ls) == [kind |-> "file", lines |-> ls]

\* always present: the root, and a sibling of the workdir whose name has the
\* workdir's name as a string prefix
Outside == (<<>> :> Dir) @@ (<<WX>> :> Dir) @@ (<<WX, A>> :> File(<<Line1>>))

FsFull ==
    Outside @@ (<<W>> :> Dir) @@ (<<W, A>> :> File(<<Line1, Line2, Line3>>))
            @@ (<<W, K>> :> File(<<Line2>>)) @@ (<<W, S>> :> Dir)
            @@ (<<W, S, A>> :> File(<<Line3>>)) @@ (<<W, S, K>> :> File(<<Line1, Line1>>))
FsFileS == Outside @@ (<<W>> :> Dir) @@ (<<W, A>> :> File(<<Line2, Line1>>)) @@ (<<W, S>> :> File(<<Line1>>))
FsDirK ==
    Outside @@ (<<W>> :> Dir) @@ (<<W, K>> :> Dir) @@ (<<W, K, A>> :> File(<<Line1>>))
            @@ (<<W, S>> :> Dir) @@ (<<W, A>> :> File(<<>>))
FsEmpty == Outside @@ (<<W>> :> Dir)
FsNoWorkdir == Outside
FsWorkdirIsFile == Outside @@ (<<W>> :> File(<<Line1>>))

Filesystems == {FsFull, FsFileS, FsDirK, FsEmpty, FsNoWorkdir, FsWorkdirIsFile}

KindOf(f, p) == IF Comps(p) \in DOMAIN f THEN f[Comps(p)].kind ELSE "none"

\* os.path.exists / os.path.isdir / os.path.getsize / os.listdir
Exists(f, p) == KindOf(f, p) # "none"
IsDir(f, p) == KindOf(f, p) = "dir"
GetSize(f, p) == Len(Flatten(f[Comps(p)].lines))
ListDir(f, p) ==
    {q[Len(q)] : q \in {r \in DOMAIN f : Len(r) = Len(Comps(p)) + 1
                                         /\ SubSeq(r, 1, Len(r) - 1) = Comps(p)}}

IoOp(op, p) == [op |-> op, p |-> p]

Text(tag, path) == [kind |-> "text", tag |-> tag, path |-> path]

(***************************************************************************)
(* list_directory                                                          *)
(***************************************************************************)
\* the cap on listed entries
MaxEntries == 500

\* workdir = _abspath(config.get("workdir", "."))
Workdir(cfg) == AbsPath(IF cfg.workdir = None THEN CurDir ELSE cfg.workdir.v)

\* default_max = int(config.get("max_bytes", 200_000))
DefaultMaxBytes == 200000
DefaultMax(cfg) == IF cfg.max_bytes = None THEN DefaultMaxBytes ELSE cfg.max_bytes.v

\* the loop over the sorted entries: [lines, io] after entries[i..]
RECURSIVE ListLoop(_, _, _, _, _, _, _, _)
ListLoop(f, workdir, deny, target, entries, i, count, acc) ==
    IF i > Len(entries) THEN acc
    ELSE LET name == entries[i]
             full == PathJoin(target, name)
             rel == RelPath(full, workdir)
         IN IF IsDenied(rel, deny)
            THEN ListLoop(f, workdir, deny, target, entries, i + 1, count, acc)
            ELSE IF count >= MaxEntries
            THEN [lines |-> Append(acc.lines, [k |-> "TRUNC", name |-> <<>>, size |-> 0]),
                  io |-> acc.io]
            ELSE IF IsDir(f, full)
            THEN ListLoop(f, workdir, deny, target, entries, i + 1, count + 1,
                     [lines |-> Append(acc.lines, [k |-> "DIR", name |-> name, size |-> 0]),
                      io |-> Append(acc.io, IoOp("isdir", full))])
            ELSE ListLoop(f, workdir, deny, target, entries, i + 1, count + 1,
                     [lines |-> Append(acc.lines,
                                       [k |-> "FILE", name |-> name, size |-> GetSize(f, full)]),
                      io |-> acc.io \o <<IoOp("isdir", full), IoOp("getsize", full)>>])

\* list_directory(path): [result, io]
ListDirectoryRun(f, unr, cfg, path) ==
    LET workdir == Workdir(cfg)
        target == AbsPath(PathJoin(workdir, path))
    IN IF ~EnsureWithin(workdir, target)
       THEN [result |-> Text("AccessDeniedOutside", path), io |-> <<>>]
       ELSE IF ~Exists(f, target)
       THEN [result |-> Text("DirectoryNotFound", path), io |-> <<IoOp("exists", target)>>]
       ELSE IF ~IsDir(f, target)
       THEN [result |-> Text("NotADirectory", path),
             io |-> <<IoOp("exists", target), IoOp("isdir", target)>>]
       ELSE IF Comps(target) \in unr
       THEN [result |-> Text("PermissionDeniedDirectory", path),
             io |-> <<IoOp("exists", target), IoOp("isdir", target), IoOp("listdir", target)>>]
       ELSE LET entries == Sorted(ListDir(f, target))
                out == ListLoop(f, workdir, cfg.deny, target, entries, 1, 0,
                           [lines |-> <<>>,
                            io |-> <<IoOp("exists", target), IoOp("isdir", target),
                                     IoOp("listdir", target)>>])
            IN [result |-> [kind |-> "text", tag |-> "Listing", path |-> path,
                            lines |-> out.lines],
                io |-> out.io]

\* what os.listdir finds when another process changed the target after the
\* os.path.isdir check: the target momentarily absent, or a file in its place
ListdirRaces == {"absent", "file"}

\* list_directory(path) with such a change between line 65 and line 68:
\* only PermissionError is caught around os.listdir
ListDirectoryRacedRun(f, unr, cfg, path, race) ==
    LET target == AbsPath(PathJoin(Workdir(cfg), path))
    IN [result |-> Raise(IF race = "absent" THEN "FileNotFoundError" ELSE "NotADirectoryError"),
        io |-> <<IoOp("exists", target), IoOp("isdir", target), IoOp("listdir", target)>>]

\* the checks in front of os.listdir pass: list_directory gets to call it
ReachesListdir(f, cfg, path) ==
    LET target == AbsPath(PathJoin(Workdir(cfg), path))
    IN EnsureWithin(Workdir(cfg), target) /\ Exists(f, target) /\ IsDir(f, target)

(***************************************************************************)
(* read_file                                                               *)
(***************************************************************************)
\* line.rstrip("\n")
RECURSIVE RStripNl(_)
RStripNl(l) == IF l # <<>> /\ l[Len(l)] = NL THEN RStripNl(SubSeq(l, 1, Len(l) - 1)) ELSE l

\* a faulty line-by-line branch: end_line itself is left out
RECURSIVE RangeLoopEndExclusive(_, _, _, _, _)
RangeLoopEndExclusive(ls, i, startLine, endLine, acc) ==
    IF i > Len(ls) THEN acc
    ELSE IF startLine # None /\ i < startLine.v
    THEN RangeLoopEndExclusive(ls, i + 1, startLine, endLine, acc)
    ELSE IF endLine # None /\ i >= endLine.v THEN acc
    ELSE RangeLoopEndExclusive(ls, i + 1, startLine, endLine, Append(acc, RStripNl(ls[i])))

\* the line-by-line branch: lines i with start_line <= i <= end_line
RECURSIVE RangeLoop(_, _, _, _, _)
RangeLoop(ls, i, startLine, endLine, acc) ==
    IF i > Len(ls) THEN acc
    ELSE IF startLine # None /\ i < startLine.v THEN RangeLoop(ls, i + 1, startLine, endLine, acc)
    ELSE IF endLine # None /\ i > endLine.v THEN acc
    ELSE RangeLoop(ls, i + 1, startLine, endLine, Append(acc, RStripNl(ls[i])))

\* f.read(limit): a negative limit reads everything
ReadUpTo(content, limit) ==
    IF limit < 0 THEN content ELSE SubSeq(content, 1, Min2(limit, Len(content)))


\* read_file(path, max_bytes, start_line, end_line): [result, io]
ReadFileRun(f, unr, cfg, path, maxBytes, startLine, endLine) ==
    LET workdir == Workdir(cfg)
        limit == IF maxBytes = None THEN DefaultMax(cfg) ELSE maxBytes.v
        target == AbsPath(PathJoin(workdir, path))
        rel == RelPath(target, workdir)
        io2 == <<IoOp("exists", target), IoOp("isdir", target)>>
        io3 == Append(io2, IoOp("getsize", target))
        io4 == Append(io3, IoOp("open", target))
    IN IF ~EnsureWithin(workdir, target)
       THEN [result |-> Text("AccessDeniedOutside", path), io |-> <<>>]
       ELSE IF ~Exists(f, target)
       THEN [result |-> Text("FileNotFound", path), io |-> <<IoOp("exists", target)>>]
       ELSE IF IsDir(f, target)
       THEN [result |-> Text("PathIsDirectory", path), io |-> io2]
       ELSE IF IsDenied(rel, cfg.deny)
       THEN [result |-> Text("AccessDeniedByPolicy", path), io |-> io2]
       ELSE IF GetSize(f, target) > limit /\ startLine = None /\ endLine = None
       THEN [result |-> [kind |-> "text", tag |-> "FileTooLarge", path |-> path,
                         size |-> GetSize(f, target), limit |-> limit],
             io |-> io3]
       ELSE IF Comps(target) \in unr
       THEN [result |-> Text("PermissionDeniedReading", path), io |-> io4]
       ELSE IF startLine # None \/ endLine # None
       THEN [result |-> [kind |-> "text", tag |-> "Content", path |-> path,
                         text |-> JoinWith(<<NL>>,
                                     RangeLoop(f[Comps(target)].lines, 1, startLine, endLine, <<>>))],
             io |-> io4]
       ELSE [result |-> [kind |-> "text", tag |-> "Content", path |-> path,
                         text |-> ReadUpTo(Flatten(f[Comps(target)].lines), limit)],
             io |-> io4]

(***************************************************************************)
(* search_in_files                                                         *)
(***************************************************************************)
IsSpace(c) == c \in {" ", NL, "\t", "\r"}

\* s.strip()
RECURSIVE LStrip(_)
LStrip(s) == IF s # <<>> /\ IsSpace(Head(s)) THEN LStrip(Tail(s)) ELSE s
RECURSIVE RStrip(_)
RStrip(s) == IF s # <<>> /\ IsSpace(s[Len(s)]) THEN RStrip(SubSeq(s, 1, Len(s) - 1)) ELSE s
Strip(s) == RStrip(LStrip(s))

\* query in line
Contains(ln, q) ==
    \E k \in 0..(Len(ln) - Len(q)) : SubSeq(ln, k + 1, k + Len(q)) = q

Reverse(sq) == [k \in 1..Len(sq) |-> sq[Len(sq) + 1 - k]]

\* the order in which a directory scan yields names is the filesystem's: it is
\* taken ascending or descending
ScanOrder(names, rev) == IF rev THEN Reverse(Sorted(names)) ELSE Sorted(names)

\* os.walk(top), top-down: the (root, filename) pairs in the order the nested
\* loops of search_in_files visit them; a directory that cannot be scanned
\* contributes nothing
RECURSIVE WalkDir(_, _, _, _)
RECURSIVE WalkDirs(_, _, _, _, _)
WalkDir(f, unr, top, rev) ==
    IF Comps(top) \in unr THEN <<>>
    ELSE LET names == ScanOrder(ListDir(f, top), rev)
             files == SelectSeq(names, LAMBDA n : ~IsDir(f, PathJoin(top, n)))
             dirs == SelectSeq(names, LAMBDA n : IsDir(f, PathJoin(top, n)))
         IN [k \in 1..Len(files) |-> [root |-> top, filename |-> files[k]]]
            \o WalkDirs(f, unr, top, dirs, rev)
WalkDirs(f, unr, top, dirs, rev) ==
    IF dirs = <<>> THEN <<>>
    ELSE WalkDir(f, unr, PathJoin(top, Head(dirs)), rev) \o WalkDirs(f, unr, top, Tail(dirs), rev)

\* the loop over one open file's lines
RECURSIVE SearchLines(_, _, _, _, _, _)
SearchLines(ls, lineno, rel, query, maxMatches, acc) ==
    IF lineno > Len(ls) THEN acc
    ELSE IF Contains(ls[lineno], query)
    THEN LET found == Append(acc.matches,
                             [rel |-> rel, lineno |-> lineno, text |-> Strip(ls[lineno])])
         IN IF Len(found) >= maxMatches
            THEN [acc EXCEPT !.matches = found, !.done = TRUE]
            ELSE SearchLines(ls, lineno + 1, rel, query, maxMatches,
                             [acc EXCEPT !.matches = found])
    ELSE SearchLines(ls, lineno + 1, rel, query, maxMatches, acc)

\* the loop over the walked files
RECURSIVE SearchFiles(_, _, _, _, _, _, _, _, _)
SearchFiles(f, unr, workdir, deny, files, query, fileGlob, maxMatches, acc) ==
    IF files = <<>> \/ acc.done THEN acc
    ELSE LET root == Head(files).root
             filename == Head(files).filename
             fpath == PathJoin(root, filename)
             rel == RelPath(fpath, workdir)
             rest == Tail(files)
         IN IF IsDenied(rel, deny)
            THEN SearchFiles(f, unr, workdir, deny, rest, query, fileGlob, maxMatches, acc)
            ELSE IF fileGlob # None /\ fileGlob.v # <<>> /\ ~FnMatch(filename, fileGlob.v)
            THEN SearchFiles(f, unr, workdir, deny, rest, query, fileGlob, maxMatches, acc)
            ELSE IF Comps(fpath) \in unr
            THEN SearchFiles(f, unr, workdir, deny, rest, query, fileGlob, maxMatches,
                             [acc EXCEPT !.io = Append(@, IoOp("open", fpath))])
            ELSE SearchFiles(f, unr, workdir, deny, rest, query, fileGlob, maxMatches,
                             SearchLines(f[Comps(fpath)].lines, 1, rel, query, maxMatches,
                                 [acc EXCEPT !.io = Append(@, IoOp("open", fpath))]))

\* search_in_files(query, path, file_glob, max_matches): [result, io]
SearchInFilesRun(f, unr, cfg, query, path, fileGlob, maxMatches, rev) ==
    LET workdir == Workdir(cfg)
        targetDir == AbsPath(PathJoin(workdir, path))
        io2 == <<IoOp("exists", targetDir), IoOp("isdir", targetDir)>>
    IN IF ~EnsureWithin(workdir, targetDir)
       THEN [result |-> Text("AccessDeniedOutside", path), io |-> <<>>]
       ELSE IF ~Exists(f, targetDir)
       THEN [result |-> Text("DirectoryNotFound", path), io |-> <<IoOp("exists", targetDir)>>]
       ELSE IF ~IsDir(f, targetDir)
       THEN [result |-> Text("NotADirectory", path), io |-> io2]
       ELSE LET out == SearchFiles(f, unr, workdir, cfg.deny, WalkDir(f, unr, targetDir, rev),
                           query, fileGlob, maxMatches,
                           [matches |-> <<>>, io |-> Append(io2, IoOp("walk", targetDir)),
                            done |-> FALSE])
            IN IF out.matches = <<>>
               THEN [result |-> Text("NoMatches", path), io |-> out.io]
               ELSE [result |-> [kind |-> "text", tag |-> "Matches", path |-> path,
                                 lines |-> out.matches],
                     io |-> out.io]

(***************************************************************************)
(* Sandbox tool invocations                                                *)
(***************************************************************************)
\* longest path argument, in segments
MaxPathSegs == 2

PathSegs == {ParDir, A, K, S, W, WX}

SegSeqs == UNION {[1..n -> PathSegs] : n \in 0..MaxPathSegs}

\* path arguments: every segment sequence spelled as a relative path, and some
\* spellings that are absolute or have '.', empty segments or deeper traversal
PathArgs ==
    {JoinWith(Slash, ss) : ss \in SegSeqs}
    \cup {CurDir,
          JoinWith(Slash, <<S, ParDir, K>>),
          JoinWith(Slash, <<S, ParDir, ParDir, WX, A>>),
          JoinWith(Slash, <<CurDir, S, <<>>, K>>),
          JoinWith(Slash, <<ParDir, W, S, K>>),
          Slash,
          Slash \o W,
          Slash \o WX,
          Slash \o JoinWith(Slash, <<W, A>>),
          Slash \o JoinWith(Slash, <<WX, A>>),
          <<"/", "/">> \o JoinWith(Slash, <<W, K>>),
          Slash \o JoinWith(Slash, <<W, S, A>>),
          Slash \o JoinWith(Slash, <<W, ParDir, WX, A>>)}

SmallLimit == 3

Cfg(w, d, m) == [workdir |-> w, deny |-> d, max_bytes |-> m]

\* tool configurations: workdir given absolute, relative and unnormalised
FsConfigs ==
    {Cfg(PyStr(Slash \o W), <<>>, None),
     Cfg(PyStr(Slash \o W), <<K>>, None),
     Cfg(PyStr(JoinWith(Slash, <<W, S, ParDir>>)), <<<<"s", "/", "*">>>>, PyInt(SmallLimit)),
     Cfg(PyStr(Slash \o W), <<<<"[", "k", "s", "]">>, <<"s", "/", "a">>>>, None),
     Cfg(PyStr(Slash \o JoinWith(Slash, <<W, S>>)), <<<<"*", "k">>, <<"?", "x">>>>, None),
     Cfg(PyStr(Slash \o JoinWith(Slash, <<W, S>>)), <<>>, PyInt(SmallLimit))}

FsWorlds ==
    {[fs |-> f, unreadable |-> {}] : f \in Filesystems}
    \cup {[fs |-> FsFull, unreadable |-> {<<W, S>>, <<W, A>>}]}

ReadArgs ==
    {[maxBytes |-> None, startLine |-> None, endLine |-> None],
     [maxBytes |-> PyInt(SmallLimit + 1), startLine |-> None, endLine |-> None],
     [maxBytes |-> None, startLine |-> PyInt(2), endLine |-> PyInt(3)],
     [maxBytes |-> PyInt(1), startLine |-> PyInt(2), endLine |-> None]}

SearchArgs ==
    {[query |-> <<"b">>, fileGlob |-> None, maxMatches |-> 50],
     [query |-> <<"x">>, fileGlob |-> PyStr(<<"[", "!", "k", "]">>), maxMatches |-> 2],
     [query |-> <<"x">>, fileGlob |-> None, maxMatches |-> 0]}

Idle == [tool |-> "none"]

ListDirectory(path) ==
    /\ fsCall = Idle
    /\ LET out == ListDirectoryRun(fs, unreadable, fsCfg, path)
       IN /\ fsCall' = [tool |-> "list_directory", path |-> path]
          /\ fsResult' = out.result
          /\ fsIO' = out.io
    /\ UNCHANGED <<fs, unreadable, fsCfg>>
    /\ UNCHANGED notFs

\* list_directory racing with a process that moves the target away
ListDirectoryRaced(path, race) ==
    /\ fsCall = Idle
    /\ ReachesListdir(fs, fsCfg, path)
    /\ LET out == ListDirectoryRacedRun(fs, unreadable, fsCfg, path, race)
       IN /\ fsCall' = [tool |-> "list_directory", path |-> path, race |-> race]
          /\ fsResult' = out.result
          /\ fsIO' = out.io
    /\ UNCHANGED <<fs, unreadable, fsCfg>>
    /\ UNCHANGED notFs

ReadFile(path, args) ==
    /\ fsCall = Idle
    /\ LET out == ReadFileRun(fs, unreadable, fsCfg, path,
                              args.maxBytes, args.startLine, args.endLine)
       IN /\ fsCall' = [tool |-> "read_file", path |-> path, args |-> args]
          /\ fsResult' = out.result
          /\ fsIO' = out.io
    /\ UNCHANGED <<fs, unreadable, fsCfg>>
    /\ UNCHANGED notFs

SearchInFiles(path, args, rev) ==
    /\ fsCall = Idle
    /\ LET out == SearchInFilesRun(fs, unreadable, fsCfg, args.query, path,
                                   args.fileGlob, args.maxMatches, rev)
       IN /\ fsCall' = [tool |-> "search_in_files", path |-> path, args |-> args]
          /\ fsResult' = out.result
          /\ fsIO' = out.io
    /\ UNCHANGED <<fs, unreadable, fsCfg>>
    /\ UNCHANGED notFs

\* the caller takes the returned text; the tool keeps nothing between calls
FsReturn ==
    /\ fsCall # Idle
    /\ fsCall' = Idle
    /\ fsResult' = None
    /\ fsIO' = <<>>
    /\ UNCHANGED <<fs, unreadable, fsCfg>>
    /\ UNCHANGED notFs

FsNext ==
    \/ \E path \in PathArgs : ListDirectory(path)
    \/ \E path \in PathArgs, race \in ListdirRaces : ListDirectoryRaced(path, race)
    \/ \E path \in PathArgs, args \in ReadArgs : ReadFile(path, args)
    \/ \E path \in PathArgs, args \in SearchArgs, rev \in BOOLEAN : SearchInFiles(path, args, rev)
    \/ FsReturn


(***************************************************************************)
(* _compute_review_position: the diff-position scan                        *)
(***************************************************************************)
IsDigit(c) == c \in {"0", "1", "2", "3", "4", "5", "6", "7", "8", "9"}

DigitVal(c) ==
    CASE c = "0" -> 0 [] c = "1" -> 1 [] c = "2" -> 2 [] c = "3" -> 3 [] c = "4" -> 4
      [] c = "5" -> 5 [] c = "6" -> 6 [] c = "7" -> 7 [] c = "8" -> 8 [] c = "9" -> 9

\* int(digits)
RECURSIVE DecVal(_)
DecVal(ds) == IF ds = <<>> THEN 0 ELSE 10 * DecVal(SubSeq(ds, 1, Len(ds) - 1)) + DigitVal(ds[Len(ds)])

\* \s in the hunk pattern, for the characters a patch line can hold
IsReSpace(c) == c \in {" ", "\t"}

At(raw, i) == IF i >= 1 /\ i <= Len(raw) THEN raw[i] ELSE ""

\* \d+ from index i: the index after the digits (i itself when there is none)
RECURSIVE DigitsEnd(_, _)
DigitsEnd(raw, i) == IF IsDigit(At(raw, i)) THEN DigitsEnd(raw, i + 1) ELSE i

\* (?:,\d+)? from index i: the index after the group, or i when it is absent
OptLenEnd(raw, i) ==
    IF At(raw, i) = "," /\ IsDigit(At(raw, i + 1)) THEN DigitsEnd(raw, i + 1) ELSE i

\* faulty variant: the first number of the header, the old-file start, is
\* taken for the start of the hunk
HunkOldStart(raw) ==
    LET oldEnd == DigitsEnd(raw, 5)
        oldLenEnd == OptLenEnd(raw, oldEnd)
        newBegin == oldLenEnd + 2
        newEnd == DigitsEnd(raw, newBegin)
        newLenEnd == OptLenEnd(raw, newEnd)
    IN IF /\ At(raw, 1) = "@" /\ At(raw, 2) = "@"
          /\ IsReSpace(At(raw, 3))
          /\ At(raw, 4) = "-"
          /\ oldEnd > 5
          /\ IsReSpace(At(raw, oldLenEnd))
          /\ At(raw, oldLenEnd + 1) = "+"
          /\ newEnd > newBegin
          /\ IsReSpace(At(raw, newLenEnd))
          /\ At(raw, newLenEnd + 1) = "@" /\ At(raw, newLenEnd + 2) = "@"
       THEN PyInt(DecVal(SubSeq(raw, 5, oldEnd - 1)))
       ELSE None

\* hunk_re.match(raw) for  ^@@\s-\d+(?:,\d+)?\s\+(\d+)(?:,(\d+))?\s@@ :
\* None when there is no match, else int(m.group(1))
HunkNewStart(raw) ==
    LET oldEnd == DigitsEnd(raw, 5)
        oldLenEnd == OptLenEnd(raw, oldEnd)
        newBegin == oldLenEnd + 2
        newEnd == DigitsEnd(raw, newBegin)
        newLenEnd == OptLenEnd(raw, newEnd)
    IN IF /\ At(raw, 1) = "@" /\ At(raw, 2) = "@"
          /\ IsReSpace(At(raw, 3))
          /\ At(raw, 4) = "-"
          /\ oldEnd > 5
          /\ IsReSpace(At(raw, oldLenEnd))
          /\ At(raw, oldLenEnd + 1) = "+"
          /\ newEnd > newBegin
          /\ IsReSpace(At(raw, newLenEnd))
          /\ At(raw, newLenEnd + 1) = "@" /\ At(raw, newLenEnd + 2) = "@"
       THEN PyInt(DecVal(SubSeq(raw, newBegin, newEnd - 1)))
       ELSE None

\* state of the loop: pos, new_line_cur, and ret (the value returned from
\* inside the loop, None while it has not returned)
ScanState(p, c, r) == [pos |-> p, cur |-> c, ret |-> r]

\* faulty variant: the counter restarts at every hunk header
ScanLinePerHunk(raw, target, st) ==
    IF StartsWith(raw, <<"@", "@">>) THEN ScanState(0, HunkNewStart(raw), None)
    ELSE IF StartsWith(raw, <<" ">>) \/ StartsWith(raw, <<"+">>)
    THEN IF st.cur = None THEN st
         ELSE IF st.cur.v = target THEN ScanState(st.pos + 1, st.cur, PyInt(st.pos + 1))
         ELSE ScanState(st.pos + 1, PyInt(st.cur.v + 1), None)
    ELSE st

\* faulty variant: a removed line advances the counter
ScanLineCountRemoved(raw, target, st) ==
    IF StartsWith(raw, <<"@", "@">>) THEN ScanState(st.pos, HunkNewStart(raw), None)
    ELSE IF StartsWith(raw, <<" ">>) \/ StartsWith(raw, <<"+">>)
    THEN IF st.cur = None THEN st
         ELSE IF st.cur.v = target THEN ScanState(st.pos + 1, st.cur, PyInt(st.pos + 1))
         ELSE ScanState(st.pos + 1, PyInt(st.cur.v + 1), None)
    ELSE IF StartsWith(raw, <<"-">>) /\ st.cur # None THEN ScanState(st.pos + 1, st.cur, None)
    ELSE st

\* faulty variant: only added lines can match, context lines are stepped over
ScanLineNoContextMatch(raw, target, st) ==
    IF StartsWith(raw, <<"@", "@">>) THEN ScanState(st.pos, HunkNewStart(raw), None)
    ELSE IF StartsWith(raw, <<" ">>)
    THEN IF st.cur = None THEN st ELSE ScanState(st.pos + 1, PyInt(st.cur.v + 1), None)
    ELSE IF StartsWith(raw, <<"+">>)
    THEN IF st.cur = None THEN st
         ELSE IF st.cur.v = target THEN ScanState(st.pos + 1, st.cur, PyInt(st.pos + 1))
         ELSE ScanState(st.pos + 1, PyInt(st.cur.v + 1), None)
    ELSE st

\* faulty variant: a '@@' line that does not parse leaves the cursor alone
ScanLineKeepCursor(raw, target, st) ==
    IF StartsWith(raw, <<"@", "@">>)
    THEN IF HunkNewStart(raw) = None THEN st
         ELSE ScanState(st.pos, HunkNewStart(raw), None)
    ELSE IF StartsWith(raw, <<" ">>) \/ StartsWith(raw, <<"+">>)
    THEN IF st.cur = None THEN st
         ELSE IF st.cur.v = target THEN ScanState(st.pos + 1, st.cur, PyInt(st.pos + 1))
         ELSE ScanState(st.pos + 1, PyInt(st.cur.v + 1), None)
    ELSE st

\* one iteration of  for raw in patch.splitlines()
ScanLine(raw, target, st) ==
    IF StartsWith(raw, <<"@", "@">>)
    THEN ScanState(st.pos, HunkNewStart(raw), None)
    ELSE IF StartsWith(raw, <<" ">>)
    THEN IF st.cur = None THEN st
         ELSE IF st.cur.v = target THEN ScanState(st.pos + 1, st.cur, PyInt(st.pos + 1))
         ELSE ScanState(st.pos + 1, PyInt(st.cur.v + 1), None)
    ELSE IF StartsWith(raw, <<"+">>)
    THEN IF st.cur = None THEN st
         ELSE IF st.cur.v = target THEN ScanState(st.pos + 1, st.cur, PyInt(st.pos + 1))
         ELSE ScanState(st.pos + 1, PyInt(st.cur.v + 1), None)
    ELSE IF StartsWith(raw, <<"-">>) THEN st
    ELSE st

\* the first changed file whose filename is file_path: its index, or 0
RECURSIVE FindFile(_, _, _)
FindFile(files, path, i) ==
    IF i > Len(files) THEN 0
    ELSE IF files[i].filename = path THEN i
    ELSE FindFile(files, path, i + 1)

\* `if not patch` is false: the patch is neither None nor the empty text
HasPatch(patch) == patch # None /\ patch.v # <<>>

\* the whole loop from patch line i on, and the return after it
RECURSIVE ScanFrom(_, _, _, _)
ScanFrom(ls, i, target, st) ==
    IF i > Len(ls) THEN None
    ELSE LET nxt == ScanLine(ls[i], target, st)
         IN IF nxt.ret # None THEN nxt.ret ELSE ScanFrom(ls, i + 1, target, nxt)

\* _compute_review_position() as one value
ComputeReviewPosition(listing, path, target) ==
    IF ~listing.ok THEN None
    ELSE LET k == FindFile(listing.files, path, 1)
         IN IF k = 0 THEN None
            ELSE IF ~HasPatch(listing.files[k].patch) THEN None
            ELSE ScanFrom(listing.files[k].patch.v, 1, target, ScanState(0, None, None))

(***************************************************************************)
(* The scan, one patch line per step                                       *)
(***************************************************************************)
\* longest patch, in lines, and largest target line
MaxPatchLen == 4
MaxTarget == 4

Unset == [t |-> "unset"]

FileF == <<"f">>
FileG == <<"g">>

Hdr13 == <<"@", "@", " ", "-", "1", ",", "2", " ", "+", "1", ",", "3", " ", "@", "@">>
Hdr3 == <<"@", "@", " ", "-", "7", " ", "+", "3", " ", "@", "@", " ", "d", "e", "f">>
HdrBad == <<"@", "@", " ", "-", "1", " ", "+", ",", "3", " ", "@", "@">>
CtxLine == <<" ", "c">>
AddLine == <<"+", "a">>
DelLine == <<"-", "r">>
NoNewlineLine == <<"\\", " ", "N", "o">>

PatchLineKinds == {Hdr13, Hdr3, HdrBad, CtxLine, AddLine, DelLine, NoNewlineLine}

\* the patch  @@ -1,2 +1,3 @@ / line1 / +line2 / line3
ExamplePatch ==
    <<Hdr13,
      <<" ", "l", "i", "n", "e", "1">>,
      <<"+", "l", "i", "n", "e", "2">>,
      <<" ", "l", "i", "n", "e", "3">>>>

Patches == UNION {[1..n -> PatchLineKinds] : n \in 1..MaxPatchLen} \cup {ExamplePatch}

PyLines(ls) == [t |-> "lines", v |-> ls]
ChangedFile(name, patch) == [filename |-> name, patch |-> patch]
Listing(files) == [ok |-> TRUE, files |-> files]
ListingFailed == [ok |-> FALSE, files |-> <<>>]

\* what the PR's file list can be: unavailable, without the file, with the
\* file but no patch (binary, too large) or an empty patch, with the file
\* listed twice, and with the file and any patch
Listings ==
    {ListingFailed,
     Listing(<<>>),
     Listing(<<ChangedFile(FileG, PyLines(ExamplePatch))>>),
     Listing(<<ChangedFile(FileG, PyLines(ExamplePatch)), ChangedFile(FileF, None)>>),
     Listing(<<ChangedFile(FileF, PyLines(<<>>))>>),
     Listing(<<ChangedFile(FileF, None), ChangedFile(FileF, PyLines(ExamplePatch))>>)}
    \cup {Listing(<<ChangedFile(FileG, PyLines(<<Hdr13, CtxLine>>)), ChangedFile(FileF, PyLines(p))>>) :
              p \in Patches}

\* lines 633-656: list the files, pick the target file, take its patch
SelectPatch ==
    /\ scanPc = "start"
    /\ LET k == IF prFiles.ok THEN FindFile(prFiles.files, filePath, 1) ELSE 0
       IN IF k # 0 /\ HasPatch(prFiles.files[k].patch)
          THEN /\ scanPc' = "scan"
               /\ patchLines' = prFiles.files[k].patch.v
               /\ idx' = 1
               /\ pos' = 0
               /\ newLineCur' = None
               /\ UNCHANGED reviewPosition
          ELSE /\ scanPc' = "done"
               /\ reviewPosition' = None
               /\ UNCHANGED <<patchLines, idx, pos, newLineCur>>
    /\ UNCHANGED <<prFiles, filePath, line>>
    /\ UNCHANGED notDiff

\* one iteration of the loop, which may return from inside
ScanStep ==
    /\ scanPc = "scan"
    /\ idx <= Len(patchLines)
    /\ LET nxt == ScanLine(patchLines[idx], line, ScanState(pos, newLineCur, None))
       IN /\ pos' = nxt.pos
          /\ newLineCur' = nxt.cur
          /\ IF nxt.ret # None
             THEN scanPc' = "done" /\ reviewPosition' = nxt.ret /\ idx' = idx
             ELSE scanPc' = "scan" /\ reviewPosition' = reviewPosition /\ idx' = idx + 1
    /\ UNCHANGED <<prFiles, filePath, line, patchLines>>
    /\ UNCHANGED notDiff

\* the loop is exhausted: return None
ScanEnd ==
    /\ scanPc = "scan"
    /\ idx > Len(patchLines)
    /\ scanPc' = "done"
    /\ reviewPosition' = None
    /\ UNCHANGED <<prFiles, filePath, line, patchLines, idx, pos, newLineCur>>
    /\ UNCHANGED notDiff

DiffNext == SelectPatch \/ ScanStep \/ ScanEnd

(***************************************************************************)
(* post_review_comment and list_review_comments                            *)
(***************************************************************************)
PyBool(b) == [t |-> "bool", v |-> b]
PyFloat(n) == [t |-> "float", v |-> n]
PyList == [t |-> "list"]

\* bool(v)
Truthy(v) ==
    CASE v.t = "none" -> FALSE
      [] v.t = "bool" -> v.v
      [] v.t \in {"int", "float"} -> v.v # 0
      [] v.t = "str" -> v.v # <<>>
      [] OTHER -> TRUE

\* isinstance(v, int): bool is a subclass of int
IsInstanceInt(v) == v.t \in {"int", "bool"}
IsInstanceStr(v) == v.t = "str"

\* the number an int (or bool) compares as
NumVal(v) == IF v.t = "bool" THEN (IF v.v THEN 1 ELSE 0) ELSE v.v

\* a or b
PyOr(a, b) == IF Truthy(a) THEN a ELSE b

Msg(tag) == [kind |-> "text", tag |-> tag]
Outcome(r, log, created) == [result |-> r, apiLog |-> log, created |-> created]

\* faulty variant: only the first unset variable is reported
MissingEnvFirstOnly(env) ==
    IF ~Truthy(env.token) THEN <<"GITHUB_TOKEN">>
    ELSE IF ~Truthy(env.repo) THEN <<"GITHUB_REPOSITORY">>
    ELSE IF ~Truthy(env.event_path) THEN <<"GITHUB_EVENT_PATH">>
    ELSE <<>>

\* lines 543-549 / 766-772: the names of the unset or empty variables, in order
MissingEnv(env) ==
    (IF ~Truthy(env.token) THEN <<"GITHUB_TOKEN">> ELSE <<>>)
    \o (IF ~Truthy(env.repo) THEN <<"GITHUB_REPOSITORY">> ELSE <<>>)
    \o (IF ~Truthy(env.event_path) THEN <<"GITHUB_EVENT_PATH">> ELSE <<>>)

MissingEnvMsg(missing) == [kind |-> "text", tag |-> "MissingEnvironmentVariables", missing |-> missing]

\* lines 568-580: the validation message for a parsed payload, or "ok"
PayloadError(payload) ==
    IF payload.t # "dict" THEN "ExpectedJsonObject"
    ELSE IF ~IsInstanceStr(payload.file) \/ ~Truthy(payload.file) THEN "FileFieldRequired"
    ELSE IF ~IsInstanceInt(payload.line) \/ NumVal(payload.line) <= 0 THEN "LineFieldRequired"
    ELSE IF ~IsInstanceStr(payload.comment) \/ Strip(payload.comment.v) = <<>>
    THEN "CommentFieldRequired"
    ELSE "ok"

\* event.get("pull_request", {}).get("number") or event.get("number");
\* "AttributeError" when pull_request is not a mapping
EventPrNumber(event) ==
    IF event.t # "dict" THEN Raise("AttributeError")
    ELSE IF event.pull_request.t = "absent" THEN PyOr(None, event.number)
    ELSE IF event.pull_request.t # "dict" THEN Raise("AttributeError")
    ELSE PyOr(event.pull_request.number, event.number)

\* event.get("pull_request", {}).get("head", {}).get("sha")
EventHeadSha(event) ==
    IF event.t # "dict" THEN Raise("AttributeError")
    ELSE IF event.pull_request.t = "absent" THEN None
    ELSE IF event.pull_request.t # "dict" THEN Raise("AttributeError")
    ELSE IF event.pull_request.head.t = "absent" THEN None
    ELSE IF event.pull_request.head.t # "dict" THEN Raise("AttributeError")
    ELSE event.pull_request.head.sha

InlineComment(body, path, position) ==
    [kind |-> "inline", body |-> body, path |-> path, position |-> position, commit |-> "pr.head.sha"]

\* the general comment's body: "File: {file}, line {line}", the comment, a note
GeneralComment(path, ln, body, note) ==
    [kind |-> "general", file |-> path, line |-> ln, body |-> body, note |-> note]

\* faulty variant: a successful inline comment is followed by the general one
PostCommentBoth(prNumber, payload, api, log, reviewPos) ==
    IF reviewPos # None /\ api.inlineOk /\ api.generalOk
    THEN Outcome([kind |-> "text", tag |-> "CommentAdded", pr |-> prNumber,
                  file |-> payload.file.v, line |-> payload.line, position |-> reviewPos],
                 log \o <<"create_comment", "create_issue_comment">>,
                 <<InlineComment(payload.comment.v, payload.file.v, reviewPos),
                   GeneralComment(payload.file.v, payload.line, payload.comment.v,
                                  "Diff position not found")>>)
    ELSE IF api.generalOk
    THEN Outcome(Msg("NoPositionGeneralAdded"), Append(log, "create_issue_comment"),
                 <<GeneralComment(payload.file.v, payload.line, payload.comment.v,
                                  "Diff position not found")>>)
    ELSE Outcome(Raise("GithubException"), Append(log, "create_issue_comment"), <<>>)

\* lines 699-721: the inline attempt and the two fallbacks; the call that
\* creates the general comment is outside any try
PostComment(prNumber, payload, api, log, reviewPos) ==
    IF reviewPos # None
    THEN IF api.inlineOk
         THEN Outcome([kind |-> "text", tag |-> "CommentAdded", pr |-> prNumber,
                       file |-> payload.file.v, line |-> payload.line, position |-> reviewPos],
                      Append(log, "create_comment"),
                      <<InlineComment(payload.comment.v, payload.file.v, reviewPos)>>)
         ELSE IF api.generalOk
         THEN Outcome(Msg("InlineFailedGeneralAdded"),
                      log \o <<"create_comment", "create_issue_comment">>,
                      <<GeneralComment(payload.file.v, payload.line, payload.comment.v,
                                       "Failed to create inline comment")>>)
         ELSE Outcome(Raise("GithubException"),
                      log \o <<"create_comment", "create_issue_comment">>, <<>>)
    ELSE IF api.generalOk
    THEN Outcome(Msg("NoPositionGeneralAdded"), Append(log, "create_issue_comment"),
                 <<GeneralComment(payload.file.v, payload.line, payload.comment.v,
                                  "Diff position not found")>>)
    ELSE Outcome(Raise("GithubException"), Append(log, "create_issue_comment"), <<>>)

\* lines 609-619 / 797-804: gh.get_repo(repo_full), repo.get_pull(pr_number)
FetchError(api) ==
    IF api.fetch = "GithubException" THEN "GitHubApiErrorFetching"
    ELSE IF api.fetch = "Exception" THEN "FailedToInitializeClient"
    ELSE "ok"

\* post_review_comment(comment_data): [result, apiLog, created]
PostReviewCommentRun(env, evFile, commentData, api) ==
    IF MissingEnv(env) # <<>> THEN Outcome(MissingEnvMsg(MissingEnv(env)), <<>>, <<>>)
    ELSE IF evFile.state = "missing" THEN Outcome(Msg("EventFileNotFound"), <<>>, <<>>)
    ELSE IF commentData.t = "badjson" THEN Outcome(Msg("InvalidInputJson"), <<>>, <<>>)
    ELSE IF PayloadError(commentData.v) # "ok"
    THEN Outcome(Msg(PayloadError(commentData.v)), <<>>, <<>>)
    ELSE IF evFile.state = "unreadable"
    THEN Outcome(Msg("PermissionDeniedReadingEvent"), <<>>, <<>>)
    ELSE IF evFile.state = "badjson" THEN Outcome(Msg("InvalidJsonInEvent"), <<>>, <<>>)
    ELSE LET payload == commentData.v
             prNumber == EventPrNumber(evFile.json)
             headSha == EventHeadSha(evFile.json)
         IN IF "kind" \in DOMAIN prNumber THEN Outcome(prNumber, <<>>, <<>>)
            ELSE IF "kind" \in DOMAIN headSha THEN Outcome(headSha, <<>>, <<>>)
            ELSE IF ~IsInstanceInt(prNumber)
            THEN Outcome(Msg("FailedToDeterminePrNumber"), <<>>, <<>>)
            ELSE IF FetchError(api) # "ok"
            THEN Outcome(Msg(FetchError(api)), <<"get_repo", "get_pull">>, <<>>)
            ELSE PostComment(prNumber, payload, api, <<"get_repo", "get_pull", "get_files">>,
                     ComputeReviewPosition(api.listing, payload.file.v, NumVal(payload.line)))

\* lines 811-819: the first of line, original_line, position,
\* original_position that is not None
CommentLine(c) ==
    IF c.line # None THEN c.line
    ELSE IF c.original_line # None THEN c.original_line
    ELSE IF c.position # None THEN c.position
    ELSE c.original_position

\* lines 821-828: created.isoformat(), with "Z" appended to a naive timestamp
CreatedIso(created) ==
    IF created = None THEN None
    ELSE [t |-> "iso", stamp |-> created.stamp,
          suffix |-> IF created.tzinfo = None THEN "Z" ELSE created.tzinfo.v]

Normalised(c) ==
    [id |-> c.id, file |-> c.path, line |-> CommentLine(c), body |-> c.body,
     author |-> c.login, created_at |-> CreatedIso(c.created_at)]

\* list_review_comments(query): [result, apiLog, created]
ListReviewCommentsRun(env, evFile, api) ==
    IF MissingEnv(env) # <<>> THEN Outcome(MissingEnvMsg(MissingEnv(env)), <<>>, <<>>)
    ELSE IF evFile.state = "missing" THEN Outcome(Msg("EventFileNotFound"), <<>>, <<>>)
    ELSE IF evFile.state \in {"unreadable", "badjson"}
    THEN Outcome(Msg("FailedToReadOrParseEvent"), <<>>, <<>>)
    ELSE LET prNumber == EventPrNumber(evFile.json)
         IN IF "kind" \in DOMAIN prNumber
            THEN Outcome(Msg("FailedToReadOrParseEvent"), <<>>, <<>>)
            ELSE IF ~IsInstanceInt(prNumber)
            THEN Outcome(Msg("FailedToDeterminePrNumber"), <<>>, <<>>)
            ELSE IF FetchError(api) # "ok"
            THEN Outcome(Msg(FetchError(api)), <<"get_repo", "get_pull">>, <<>>)
            ELSE IF ~api.reviews.ok
            THEN Outcome(Msg("GitHubApiErrorFetchingComments"),
                         <<"get_repo", "get_pull", "get_review_comments">>, <<>>)
            ELSE Outcome([kind |-> "text", tag |-> "CommentsJson",
                          comments |-> [k \in 1..Len(api.reviews.comments) |->
                                            Normalised(api.reviews.comments[k])]],
                         <<"get_repo", "get_pull", "get_review_comments">>, <<>>)

(***************************************************************************)
(* Review tool invocations                                                 *)
(***************************************************************************)
Absent == [t |-> "absent"]
Present == PyStr(<<"v">>)
Env(t, r, e) == [token |-> t, repo |-> r, event_path |-> e]

Environments ==
    {Env(Present, Present, Present), Env(None, Present, Present), Env(Present, PyStr(<<>>), None),
     Env(None, None, None), Env(Present, Present, None)}

PrNumber == 7
EventJson(pr, n) == [state |-> "json", json |-> [t |-> "dict", pull_request |-> pr, number |-> n]]
PullRequest(n, head) == [t |-> "dict", number |-> n, head |-> head]
HeadOf(sha) == [t |-> "dict", sha |-> sha]

\* the event descriptor: no such file, unreadable, not JSON, and JSON with
\* and without the PR number and the head SHA
EventFiles ==
    {[state |-> "missing"], [state |-> "unreadable"], [state |-> "badjson"],
     EventJson(PullRequest(PyInt(PrNumber), HeadOf(PyStr(<<"s", "h", "a">>))), None),
     EventJson(PullRequest(PyInt(PrNumber), Absent), None),
     EventJson(PullRequest(PyInt(PrNumber), HeadOf(None)), None),
     EventJson(Absent, PyInt(PrNumber)),
     EventJson(Absent, None),
     EventJson(PullRequest(PyStr(<<"7">>), HeadOf(PyStr(<<"s", "h", "a">>))), None),
     EventJson(None, PyInt(PrNumber)),
     [state |-> "json", json |-> PyList]}

Payload(f, l, c) == [t |-> "json", v |-> [t |-> "dict", file |-> f, line |-> l, comment |-> c]]

FileValues == {None, PyStr(<<>>), PyStr(FileF), PyInt(1)}
LineValues ==
    {None, PyInt(0), PyInt(-1), PyBool(TRUE), PyBool(FALSE), PyFloat(2), PyStr(<<"2">>)}
    \cup {PyInt(n) : n \in 1..MaxTarget}
CommentValues == {None, PyStr(<<>>), PyStr(<<" ", NL>>), PyStr(<<" ", "c">>), PyInt(1)}

Payloads ==
    {[t |-> "badjson"], [t |-> "json", v |-> PyList]}
    \cup {Payload(f, l, c) : f \in FileValues, l \in LineValues, c \in CommentValues}

\* the patches the API serves for FileF: the example, a two-hunk patch and a
\* patch that opens with lines outside any hunk
ServedListings ==
    {ListingFailed,
     Listing(<<ChangedFile(FileG, PyLines(ExamplePatch))>>),
     Listing(<<ChangedFile(FileF, None)>>),
     Listing(<<ChangedFile(FileF, PyLines(ExamplePatch))>>),
     Listing(<<ChangedFile(FileF, PyLines(<<Hdr13, CtxLine, DelLine, Hdr3, AddLine, CtxLine>>))>>)}

RawComment(id, l, ol, p, op, created) ==
    [id |-> id, path |-> PyStr(FileF), line |-> l, original_line |-> ol, position |-> p,
     original_position |-> op, body |-> PyStr(<<"c">>), login |-> PyStr(<<"o">>),
     created_at |-> created]
Stamp(tz) == [stamp |-> "2025-09-20T12:34:56", tzinfo |-> tz]

ServedReviews ==
    {[ok |-> FALSE, comments |-> <<>>],
     [ok |-> TRUE, comments |-> <<>>],
     [ok |-> TRUE,
      comments |-> <<RawComment(1, PyInt(4), PyInt(3), PyInt(2), PyInt(1), Stamp(None)),
                     RawComment(2, None, PyInt(3), None, PyInt(1), Stamp(PyStr("+00:00"))),
                     RawComment(3, None, None, None, PyInt(1), None)>>]}

Api(fetch, listing, inlineOk, generalOk, reviews) ==
    [fetch |-> fetch, listing |-> listing, inlineOk |-> inlineOk, generalOk |-> generalOk,
     reviews |-> reviews]

NoReviews == [ok |-> TRUE, comments |-> <<>>]
AllOk == Api("ok", Listing(<<ChangedFile(FileF, PyLines(ExamplePatch))>>), TRUE, TRUE, NoReviews)

\* every payload against an API that works, and the well-formed payloads
\* against every way the API can answer
PostCalls ==
    {[payload |-> pl, api |-> AllOk] : pl \in Payloads}
    \cup {[payload |-> Payload(PyStr(FileF), l, PyStr(<<" ", "c">>)),
           api |-> Api(f, ls, i, g, NoReviews)] :
              l \in {PyInt(n) : n \in 1..MaxTarget} \cup {PyBool(TRUE)},
              f \in {"ok", "GithubException", "Exception"},
              ls \in ServedListings, i \in BOOLEAN, g \in BOOLEAN}

ListCalls ==
    {Api(f, ListingFailed, TRUE, TRUE, r) :
         f \in {"ok", "GithubException", "Exception"}, r \in ServedReviews}

GhIdle == [tool |-> "none"]

PostReviewComment(call) ==
    /\ ghCall = GhIdle
    /\ LET out == PostReviewCommentRun(environ, eventFile, call.payload, call.api)
       IN /\ ghCall' = [tool |-> "post_review_comment", payload |-> call.payload, api |-> call.api]
          /\ ghResult' = out.result
          /\ apiLog' = out.apiLog
          /\ prComments' = out.created
    /\ UNCHANGED <<environ, eventFile>>
    /\ UNCHANGED notGh

ListReviewComments(api) ==
    /\ ghCall = GhIdle
    /\ LET out == ListReviewCommentsRun(environ, eventFile, api)
       IN /\ ghCall' = [tool |-> "list_review_comments", api |-> api]
          /\ ghResult' = out.result
          /\ apiLog' = out.apiLog
          /\ prComments' = out.created
    /\ UNCHANGED <<environ, eventFile>>
    /\ UNCHANGED notGh

\* the caller takes the result; the tool keeps nothing between calls
GhReturn ==
    /\ ghCall # GhIdle
    /\ ghCall' = GhIdle
    /\ ghResult' = None
    /\ apiLog' = <<>>
    /\ prComments' = <<>>
    /\ UNCHANGED <<environ, eventFile>>
    /\ UNCHANGED notGh

GhNext ==
    \/ \E call \in PostCalls : PostReviewComment(call)
    \/ \E api \in ListCalls : ListReviewComments(api)
    \/ GhReturn

(***************************************************************************)
(* ToolFactory                                                             *)
(***************************************************************************)
\* the registry's keys, abbreviated
filesystem == <<"f", "s">>
git == <<"g", "i", "t">>
list_directory == <<"l", "d">>
read_file == <<"r", "f">>
search_in_files == <<"s", "f">>
git_changed_files == <<"g", "c">>
git_diff == <<"g", "d">>
git_pr_diff == <<"p", "d">>
git_pr_changed_files == <<"p", "c">>
post_review_comment == <<"p", "r">>
list_review_comments == <<"l", "r">>

\* __init__: the built-in registry
InitialRegistry ==
    (filesystem :> ((list_directory :> "build_list_directory")
                    @@ (read_file :> "build_read_file")
                    @@ (search_in_files :> "build_search_in_files")))
    @@ (git :> ((git_changed_files :> "build_git_changed_files")
                @@ (git_diff :> "build_git_diff")
                @@ (git_pr_diff :> "build_git_pr_diff")
                @@ (git_pr_changed_files :> "build_git_pr_changed_files")
                @@ (post_review_comment :> "build_post_review_comment")
                @@ (list_review_comments :> "build_list_review_comments")))

\* str(v) for the values a specification field can hold
StrOf(v) ==
    CASE v.t = "str" -> v.v
      [] v.t = "none" -> <<"N", "o", "n", "e">>
      [] v.t = "int" -> <<"5">>
      [] OTHER -> <<"?">>

\* tool_spec.get(key, "")
GetOrEmpty(v) == IF v = Absent THEN PyStr(<<>>) ELSE v

EmptyDict == [t |-> "dict", items |-> <<>>]

\* faulty variant: the configuration is passed on as found
SpecConfigAsIs(spec) == spec.config

\* tool_spec.get("config") or {}
SpecConfig(spec) ==
    IF spec.config = Absent \/ ~Truthy(spec.config) \/ spec.config = EmptyDict
    THEN EmptyDict ELSE spec.config

\* builder(config): the tool a builder returns is bound to that configuration
Build(builder, config) == [kind |-> "tool", builder |-> builder, config |-> config]

ValueError(msg, n, t) == [kind |-> "raise", tag |-> "ValueError", msg |-> msg, name |-> n, type |-> t]

\* ToolFactory.create(tool_spec)
CreateRun(reg, spec) ==
    LET tName == Strip(StrOf(GetOrEmpty(spec.name)))
        tType == Strip(StrOf(GetOrEmpty(spec.type)))
        config == SpecConfig(spec)
    IN IF tName = <<>> \/ tType = <<>> THEN ValueError("InvalidSpecification", <<>>, <<>>)
       ELSE IF tType \notin DOMAIN reg \/ DOMAIN reg[tType] = {} \/ tName \notin DOMAIN reg[tType]
       THEN ValueError("UnknownTool", tName, tType)
       ELSE Build(reg[tType][tName], config)

\* ToolFactory.register(t_type, t_name, builder)
RegisterRun(reg, tType, tName, builder) ==
    LET bucket == IF tType \in DOMAIN reg THEN reg[tType] ELSE <<>>
        newBucket == [n \in DOMAIN bucket \cup {tName} |->
                          IF n = tName THEN builder ELSE bucket[n]]
    IN [t \in DOMAIN reg \cup {tType} |-> IF t = tType THEN newBucket ELSE reg[t]]

\* number of register calls explored
MaxRegisters == 2

plugin == <<"x">>
RegisterTypes == {filesystem, plugin}
RegisterNames == {list_directory, <<"N", "o", "n", "e">>, <<" ", "n">>}
Builders == {"custom_a", "custom_b"}

SpecNames ==
    {Absent, None, PyStr(<<>>), PyStr(<<" ", "\t">>), PyStr(list_directory),
     PyStr(<<" ">> \o list_directory \o <<NL>>), PyStr(post_review_comment), PyInt(5),
     PyStr(<<" ", "n">>)}
SpecTypes ==
    {Absent, None, PyStr(<<" ">>), PyStr(filesystem), PyStr(filesystem \o <<" ">>),
     PyStr(git), PyStr(plugin)}
SpecConfigs ==
    {Absent, None, EmptyDict, [t |-> "dict", items |-> <<"workdir", "deny">>]}

ToolSpecs == [name : SpecNames, type : SpecTypes, config : SpecConfigs]

NoCall == [t |-> "none"]

Create(spec) ==
    /\ factoryCall = NoCall
    /\ factoryCall' = [t |-> "create", spec |-> spec]
    /\ factoryResult' = CreateRun(registry, spec)
    /\ UNCHANGED <<registry, registered, registerLog>>
    /\ UNCHANGED notFactory

Register(tType, tName, builder) ==
    /\ factoryCall = NoCall
    /\ registered < MaxRegisters
    /\ registry' = RegisterRun(registry, tType, tName, builder)
    /\ registered' = registered + 1
    /\ registerLog' = Append(registerLog, [type |-> tType, name |-> tName, builder |-> builder])
    /\ UNCHANGED <<factoryCall, factoryResult>>
    /\ UNCHANGED notFactory

\* the caller takes what create returned or raised
FactoryReturn ==
    /\ factoryCall # NoCall
    /\ factoryCall' = NoCall
    /\ factoryResult' = None
    /\ UNCHANGED <<registry, registered, registerLog>>
    /\ UNCHANGED notFactory

FactoryNext ==
    \/ \E spec \in ToolSpecs : Create(spec)
    \/ \E t \in RegisterTypes, n \in RegisterNames, b \in Builders : Register(t, n, b)
    \/ FactoryReturn

(***************************************************************************)
(* Version-control tools                                                   *)
(***************************************************************************)
\* the timeout _run_git_command defaults to, and those of the PR tools' stages
DefaultTimeout == 30
VerifyTimeout == 10
HintTimeout == 5
FetchTimeout == 60
DiffTimeout == 30

\* workdir on disk: workdir is "missing", a "file" or a "dir"; its .git entry
\* is "missing", a "file", an "empty_dir" or a "repo"; whether the repository
\* has a commit; whether refs/remotes/<base_branch> exists
Repo(w, m, c, b) == [workdir |-> w, marker |-> m, commits |-> c, baseRef |-> b]

\* a validation that looks at workdir only
ValidateWorkdirOnly(r) ==
    IF r.workdir = "missing" THEN "WorkingDirectoryDoesNotExist"
    ELSE IF r.workdir # "dir" THEN "PathIsNotADirectory"
    ELSE "ok"

\* _validate_git_repository(workdir): the GitRepositoryError raised, or "ok"
ValidateGitRepository(r) ==
    IF r.workdir = "missing" THEN "WorkingDirectoryDoesNotExist"
    ELSE IF r.workdir # "dir" THEN "PathIsNotADirectory"
    ELSE IF r.marker = "missing" THEN "NotAGitRepository"
    ELSE IF r.marker = "file" THEN "GitIsNotADirectory"
    ELSE "ok"

\* a tool that validates on its first invocation only and afterwards goes by
\* what the invocation before found
CheckRepositoryCached(r) ==
    IF earlier.tool = "none" THEN ValidateGitRepository(r)
    ELSE IF earlier.valid THEN "ok"
    ELSE "NotAGitRepository"

\* the call of _validate_git_repository(workdir) each tool body starts with
CheckRepository(r) == ValidateGitRepository(r)

\* what subprocess.run can end in: the process exits, or an exception
Exit(rc, out, err) == [k |-> "exit", rc |-> rc, out |-> out, err |-> err]
Thrown(exc) == [k |-> "raise", exc |-> exc]
SpawnFailures ==
    {Thrown("FileNotFoundError"), Thrown("TimeoutExpired"), Thrown("PermissionError"),
     Thrown("OSError")}

Fatal == Exit(128, <<>>, <<"f", NL>>)

\* how git exits for each command the tools run, given the repository
GitExits(cmd, r) ==
    CASE cmd = "rev-parse --is-inside-work-tree" ->
             IF r.marker = "repo" THEN {Exit(0, <<"t", NL>>, <<>>)} ELSE {Fatal}
      [] cmd = "diff --name-only" ->
             IF r.marker = "repo" THEN {Exit(0, <<>>, <<>>), Exit(0, <<"a", NL>>, <<>>)}
             ELSE {Fatal}
      [] cmd = "diff HEAD" ->
             IF r.marker = "repo" /\ r.commits
             THEN {Exit(0, <<>>, <<>>), Exit(0, <<"d", NL>>, <<>>)}
             ELSE {Fatal}
      [] cmd = "show-ref --verify" ->
             IF r.marker = "repo" /\ r.baseRef THEN {Exit(0, <<"r", NL>>, <<>>)} ELSE {Fatal}
      [] cmd = "branch -r" ->
             IF r.marker = "repo" THEN {Exit(0, <<>>, <<>>), Exit(0, <<" ", "o", NL>>, <<>>)}
             ELSE {Fatal}
      [] cmd = "fetch origin" ->
             IF r.marker = "repo" THEN {Exit(0, <<>>, <<>>), Exit(1, <<>>, <<>>), Fatal}
             ELSE {Fatal}
      [] OTHER ->
             IF r.marker = "repo" /\ r.commits /\ r.baseRef
             THEN {Exit(0, <<>>, <<>>), Exit(0, <<"d", NL>>, <<>>), Fatal}
             ELSE {Fatal}

Outcomes(cmd, r) == GitExits(cmd, r) \cup SpawnFailures

Proc(text) == [t |-> "proc", v |-> text]
Diag(msg) == [t |-> "diag", msg |-> msg]
Triple(success, stdout, stderr) == [success |-> success, stdout |-> stdout, stderr |-> stderr]

\* a primitive that takes every exit of the process for a success
RunGitCommandAnyExit(o) ==
    IF o.k = "exit" THEN Triple(TRUE, Proc(Strip(o.out)), Proc(Strip(o.err)))
    ELSE Triple(FALSE, Proc(<<>>), Diag("UnexpectedError"))

\* _run_git_command(workdir, command, timeout), given how the subprocess ends
RunGitCommand(o) ==
    IF o.k = "exit" THEN Triple(o.rc = 0, Proc(Strip(o.out)), Proc(Strip(o.err)))
    ELSE IF o.exc = "FileNotFoundError" THEN Triple(FALSE, Proc(<<>>), Diag("GitCommandNotFound"))
    ELSE IF o.exc = "TimeoutExpired" THEN Triple(FALSE, Proc(<<>>), Diag("GitCommandTimedOut"))
    ELSE IF o.exc = "PermissionError" THEN Triple(FALSE, Proc(<<>>), Diag("PermissionDenied"))
    ELSE Triple(FALSE, Proc(<<>>), Diag("UnexpectedError"))

\* one subprocess.run call: the git command, its timeout and how it ended
Spawn(cmd, timeout, o) == [cmd |-> cmd, timeout |-> timeout, outcome |-> o]
Ran(o) == [outcome |-> o, triple |-> RunGitCommand(o)]
GitOut(result, procs, run) == [result |-> result, spawned |-> procs, lastRun |-> run]
GitText(tag) == [kind |-> "text", tag |-> tag]
NotARepo(why) == [kind |-> "text", tag |-> "NotARepository", why |-> why]
ErrorText(tag, error) == [kind |-> "text", tag |-> tag, error |-> error]
\* return output if output else <fallback>
OutputOr(stdout, fallback) ==
    IF stdout.v # <<>> THEN [kind |-> "text", tag |-> "Output", text |-> stdout.v] ELSE fallback

\* git_changed_files(query)
GitChangedFilesRun(r, o) ==
    IF CheckRepository(r) # "ok"
    THEN GitOut(NotARepo(CheckRepository(r)), <<>>, None)
    ELSE LET procs == <<Spawn("diff --name-only", DefaultTimeout, o)>>
             run == RunGitCommand(o)
         IN IF ~run.success THEN GitOut(ErrorText("ErrorWithTips", run.stderr), procs, Ran(o))
            ELSE GitOut(OutputOr(run.stdout, [kind |-> "text", tag |-> "Output", text |-> <<>>]),
                        procs, Ran(o))

\* git_diff(query): _check_git_initial_commit, then git diff HEAD
GitDiffRun(r, o1, o2) ==
    IF CheckRepository(r) # "ok"
    THEN GitOut(NotARepo(CheckRepository(r)), <<>>, None)
    ELSE LET probe == Spawn("rev-parse --is-inside-work-tree", DefaultTimeout, o1)
             procs == <<probe, Spawn("diff HEAD", DefaultTimeout, o2)>>
         IN IF ~RunGitCommand(o1).success
            THEN GitOut(GitText("NotValidOrNoCommitsYet"), <<probe>>, Ran(o1))
            ELSE IF ~RunGitCommand(o2).success
            THEN GitOut(ErrorText("Error", RunGitCommand(o2).stderr), procs, Ran(o2))
            ELSE GitOut(OutputOr(RunGitCommand(o2).stdout, GitText("NoChangesToShow")),
                        procs, Ran(o2))

\* the hint of the base-branch error: git branch -r run with check=True,
\* any exception leaves the hint empty
BranchHint(ob) ==
    IF ob.k = "exit" /\ ob.rc = 0 THEN [t |-> "branches", v |-> Strip(ob.out)]
    ELSE [t |-> "nohint"]

VerifySpawn(o) == Spawn("show-ref --verify", VerifyTimeout, o)
HintSpawn(o) == Spawn("branch -r", HintTimeout, o)
FetchSpawn(o) == Spawn("fetch origin", FetchTimeout, o)

\* stages 1 and 2 of git_pr_diff and git_pr_changed_files (the same code in
\* both): base-branch verification, then fetch; [done, out] when a stage
\* ended the invocation
PrVerifyAndFetch(o1, ob, o2) ==
    IF o1.k = "raise"
    THEN [done |-> TRUE,
          out |-> GitOut(IF o1.exc = "TimeoutExpired"
                         THEN GitText("TimedOutCheckingBaseBranch")
                         ELSE ErrorText("ErrorCheckingBaseBranch", Diag(o1.exc)),
                         <<VerifySpawn(o1)>>, None)]
    ELSE IF o1.rc # 0
    THEN [done |-> TRUE,
          out |-> GitOut([kind |-> "text", tag |-> "BaseBranchNotFound", hint |-> BranchHint(ob)],
                         <<VerifySpawn(o1), HintSpawn(ob)>>, None)]
    ELSE IF o2.k = "raise"
    THEN [done |-> TRUE,
          out |-> GitOut(CASE o2.exc = "FileNotFoundError" -> GitText("GitCommandNotFound")
                           [] o2.exc = "TimeoutExpired" -> GitText("FetchTimedOut")
                           [] o2.exc = "PermissionError" -> GitText("PermissionDenied")
                           [] OTHER -> ErrorText("UnexpectedFetchError", Diag(o2.exc)),
                         <<VerifySpawn(o1), FetchSpawn(o2)>>, None)]
    ELSE IF o2.rc # 0
    THEN [done |-> TRUE,
          out |-> GitOut([kind |-> "text", tag |-> "FetchFailed", rc |-> o2.rc,
                          error |-> IF o2.err = <<>> THEN Diag("NoErrorDetailsAvailable")
                                    ELSE Proc(Strip(o2.err))],
                         <<VerifySpawn(o1), FetchSpawn(o2)>>, None)]
    ELSE [done |-> FALSE, out |-> None]

\* git_pr_diff(query)
GitPrDiffRun(r, o1, ob, o2, o3) ==
    IF CheckRepository(r) # "ok"
    THEN GitOut(NotARepo(CheckRepository(r)), <<>>, None)
    ELSE IF PrVerifyAndFetch(o1, ob, o2).done THEN PrVerifyAndFetch(o1, ob, o2).out
    ELSE LET procs == <<VerifySpawn(o1), FetchSpawn(o2), Spawn("diff base...HEAD", DiffTimeout, o3)>>
             run == RunGitCommand(o3)
         IN IF ~run.success THEN GitOut(ErrorText("GitDiffFailed", run.stderr), procs, Ran(o3))
            ELSE GitOut(OutputOr(run.stdout, GitText("NoChangesToShow")), procs, Ran(o3))

\* git_pr_changed_files(query): the function ends after the name-only diff
\* was run, without a return statement
GitPrChangedFilesRun(r, o1, ob, o2, o3) ==
    IF CheckRepository(r) # "ok"
    THEN GitOut(NotARepo(CheckRepository(r)), <<>>, None)
    ELSE IF PrVerifyAndFetch(o1, ob, o2).done THEN PrVerifyAndFetch(o1, ob, o2).out
    ELSE GitOut(None,
                <<VerifySpawn(o1), FetchSpawn(o2),
                  Spawn("diff --name-only base...HEAD", DiffTimeout, o3)>>,
                Ran(o3))

(***************************************************************************)
(* Version-control tool invocations                                        *)
(***************************************************************************)
Markers == {"missing", "file", "empty_dir", "repo"}
Repos ==
    {Repo("missing", "missing", FALSE, FALSE), Repo("file", "missing", FALSE, FALSE)}
    \cup {Repo("dir", m, c, b) : m \in Markers, c \in BOOLEAN, b \in BOOLEAN}

GitIdle == [tool |-> "none"]
NoEarlier == [tool |-> "none", valid |-> FALSE]

Invoked(tool, out) ==
    /\ gitCall' = [tool |-> tool]
    /\ gitResult' = out.result
    /\ spawned' = out.spawned
    /\ lastRun' = out.lastRun
    /\ UNCHANGED <<repo, earlier>>
    /\ UNCHANGED notGit

GitChangedFiles(o) ==
    /\ gitCall = GitIdle
    /\ Invoked("git_changed_files", GitChangedFilesRun(repo, o))

GitDiff(o1, o2) ==
    /\ gitCall = GitIdle
    /\ Invoked("git_diff", GitDiffRun(repo, o1, o2))

GitPrDiff(o1, ob, o2, o3) ==
    /\ gitCall = GitIdle
    /\ Invoked("git_pr_diff", GitPrDiffRun(repo, o1, ob, o2, o3))

GitPrChangedFiles(o1, ob, o2, o3) ==
    /\ gitCall = GitIdle
    /\ Invoked("git_pr_changed_files", GitPrChangedFilesRun(repo, o1, ob, o2, o3))

\* the caller takes the result; the next invocation knows nothing of this one
GitReturn ==
    /\ gitCall # GitIdle
    /\ gitCall' = GitIdle
    /\ gitResult' = None
    /\ spawned' = <<>>
    /\ lastRun' = None
    /\ earlier' = [tool |-> gitCall.tool, valid |-> spawned # <<>>]
    /\ UNCHANGED repo
    /\ UNCHANGED notGit

\* between invocations somebody removes, creates or replaces workdir/.git
MarkerChanges(m) ==
    /\ gitCall = GitIdle
    /\ repo.workdir = "dir"
    /\ m # repo.marker
    /\ repo' = [repo EXCEPT !.marker = m]
    /\ UNCHANGED <<gitCall, gitResult, spawned, lastRun, earlier>>
    /\ UNCHANGED notGit

GitNext ==
    \/ \E o \in Outcomes("diff --name-only", repo) : GitChangedFiles(o)
    \/ \E o1 \in Outcomes("rev-parse --is-inside-work-tree", repo),
          o2 \in Outcomes("diff HEAD", repo) : GitDiff(o1, o2)
    \/ \E o1 \in Outcomes("show-ref --verify", repo), ob \in Outcomes("branch -r", repo),
          o2 \in Outcomes("fetch origin", repo), o3 \in Outcomes("diff base...HEAD", repo) :
              GitPrDiff(o1, ob, o2, o3)
    \/ \E o1 \in Outcomes("show-ref --verify", repo), ob \in Outcomes("branch -r", repo),
          o2 \in Outcomes("fetch origin", repo),
          o3 \in Outcomes("diff --name-only base...HEAD", repo) :
              GitPrChangedFiles(o1, ob, o2, o3)
    \/ GitReturn
    \/ \E m \in Markers : MarkerChanges(m)

(***************************************************************************)
(* Two tools built from one specification                                  *)
(***************************************************************************)
Instances == {"first", "second"}

\* a config mapping with the keys the sandbox builders read
ConfigDict(cfg) ==
    [t |-> "dict", items |-> <<"workdir", "deny", "max_bytes">>,
     workdir |-> cfg.workdir, deny |-> cfg.deny, max_bytes |-> cfg.max_bytes]

InstSpecs ==
    {[name |-> PyStr(n), type |-> PyStr(filesystem), config |-> ConfigDict(c)] :
        n \in {list_directory, <<" ">> \o read_file},
        c \in {Cfg(PyStr(Slash \o W), <<K>>, None),
               Cfg(PyStr(Slash \o JoinWith(Slash, <<W, S>>)), <<>>, PyInt(SmallLimit))}}

InstPaths == {CurDir, S, A}

\* a tool that takes the directory of its last call for its workdir
ToolRemembersDir(built, path) ==
    [built EXCEPT !.config.workdir = PyStr(AbsPath(PathJoin(Workdir(built.config), path)))]

\* what a built tool closes over once a call returned: the tool bodies read
\* workdir, deny and default_max and assign none of them
ToolAfterCall(built, path) == built

\* calling a built sandbox tool with a path and defaults for the rest
CallTool(built, f, unr, path) ==
    IF built.builder = "build_list_directory"
    THEN ListDirectoryRun(f, unr, built.config, path).result
    ELSE ReadFileRun(f, unr, built.config, path, None, None, None).result

Invoke(i, path) ==
    /\ observed' = [observed EXCEPT
                       ![i] = @ \cup {[path |-> path,
                                       result |-> CallTool(tools[i], fs, unreadable, path)]}]
    /\ tools' = [tools EXCEPT ![i] = ToolAfterCall(@, path)]
    /\ UNCHANGED instSpec
    /\ UNCHANGED notInst

InstNext == \E i \in Instances, path \in InstPaths : Invoke(i, path)

(***************************************************************************)
(* run_agent.py main and agent.py run_agent: the sampling temperature      *)
(***************************************************************************)
\* temperatures are held in tenths: 0.7 is 7, 2.0 is 20
TemperatureLow == 0
TemperatureHigh == 20
DefaultTempGpt5 == 10
DefaultTempOther == 7
\* how far outside the allowed range the given temperatures go, in tenths
TempSlack == 1

Gpt5 == <<"g", "p", "t", "-", "5">>
ModelNames == {Gpt5, Gpt5 \o <<"-", "m", "i", "n", "i">>, <<"g", "p", "t", "-", "4", "o">>,
               <<>>, <<" ">>}

Temperatures ==
    {None} \cup {PyFloat(n) : n \in (TemperatureLow - TempSlack)..(TemperatureHigh + TempSlack)}

\* a run: started from the command line (main) or by a caller that builds
\* the AgentConfig itself (run_agent); whether OPENAI_API_KEY is set, and
\* whether the input text, the agent YAML and its system prompt are usable
AgentRuns ==
    {[entry |-> "main", apiKey |-> k, model |-> m, temperature |-> t, inputsOk |-> i] :
         k \in BOOLEAN, m \in ModelNames, t \in Temperatures, i \in BOOLEAN}
    \cup {[entry |-> "run_agent", apiKey |-> TRUE, model |-> m, temperature |-> t,
            inputsOk |-> TRUE] : m \in ModelNames \ {<<>>, <<" ">>}, t \in Temperatures}

\* 0.0 <= t <= 2.0
InRange(t) == TemperatureLow <= t.v /\ t.v <= TemperatureHigh

\* validate_model
ValidModel(m) == Strip(m) # <<>>

\* main, up to the call of run_agent: 2 on any failed check, else None
MainExit(a) ==
    IF ~a.apiKey THEN PyInt(2)
    ELSE IF ~ValidModel(a.model) THEN PyInt(2)
    ELSE IF a.temperature # None /\ ~InRange(a.temperature) THEN PyInt(2)
    ELSE IF ~a.inputsOk THEN PyInt(2)
    ELSE None

\* config.temperature or (1.0 if 'gpt-5' in config.model else 0.7)
EffectiveTemperature(model, temperature) ==
    PyOr(temperature,
         IF Contains(model, Gpt5) THEN PyFloat(DefaultTempGpt5) ELSE PyFloat(DefaultTempOther))

\* main: the checks, then AgentConfig(..., temperature=args.temperature)
Main ==
    /\ agentPc = "start"
    /\ agentArgs.entry = "main"
    /\ IF MainExit(agentArgs) # None
       THEN agentPc' = "exit" /\ exitCode' = MainExit(agentArgs)
       ELSE agentPc' = "run" /\ exitCode' = exitCode
    /\ UNCHANGED <<agentArgs, llmTemperature>>
    /\ UNCHANGED notAgent

\* a caller hands its own AgentConfig to run_agent
CallRunAgent ==
    /\ agentPc = "start"
    /\ agentArgs.entry = "run_agent"
    /\ agentPc' = "run"
    /\ UNCHANGED <<agentArgs, llmTemperature, exitCode>>
    /\ UNCHANGED notAgent

\* run_agent lines 148-166: the temperature, its validation (sys.exit(1)),
\* and the construction of ChatOpenAI, which may fail (return 1)
RunAgent(llmOk) ==
    /\ agentPc = "run"
    /\ LET temperature == EffectiveTemperature(agentArgs.model, agentArgs.temperature)
       IN IF ~InRange(temperature)
          THEN agentPc' = "exit" /\ exitCode' = PyInt(1) /\ llmTemperature' = llmTemperature
          ELSE IF ~llmOk
          THEN agentPc' = "exit" /\ exitCode' = PyInt(1) /\ llmTemperature' = llmTemperature
          ELSE agentPc' = "llm" /\ llmTemperature' = temperature /\ exitCode' = exitCode
    /\ UNCHANGED agentArgs
    /\ UNCHANGED notAgent

\* the rest of run_agent: tools, prompt and the agent's run end with 0 or 1
AgentFinish(code) ==
    /\ agentPc = "llm"
    /\ agentPc' = "exit"
    /\ exitCode' = PyInt(code)
    /\ UNCHANGED <<agentArgs, llmTemperature>>
    /\ UNCHANGED notAgent

AgentNext ==
    \/ Main
    \/ CallRunAgent
    \/ \E llmOk \in BOOLEAN : RunAgent(llmOk)
    \/ \E code \in {0, 1} : AgentFinish(code)

(***************************************************************************)
(* list_directory over a large directory, one loop iteration per step      *)
(***************************************************************************)
MaxDirSize == 600

DigitChars == <<"0", "1", "2", "3", "4", "5", "6", "7", "8", "9">>

\* the k-th name of a large directory: three digits, so that the order of
\* the names is the order of the numbers
EntryName(k) ==
    <<DigitChars[(k \div 100) + 1], DigitChars[((k \div 10) % 10) + 1], DigitChars[(k % 10) + 1]>>

\* workdir /w holding n entries, every seventh a directory
BigFs(n) ==
    [p \in {<<>>, <<W>>} \cup {<<W, EntryName(k)>> : k \in 0..(n - 1)} |->
        IF Len(p) < 2 \/ (DecVal(p[2]) % 7 = 0) THEN Dir ELSE File(<<Line2>>)]

DirSizes == {2, 500, 501, MaxDirSize}

\* deny lists that hide entries at the start, at the cap and behind the cap
BigDenies ==
    {<<>>,
     <<<<"0", "0", "?">>>>,
     <<<<"5", "0", "0">>>>,
     <<<<"5", "[", "0", "-", "9", "]", "?">>, <<"0", "1", "0">>>>}

\* a faulty loop body: the cap is looked at before the deny patterns
ListEntryCapFirst(f, workdir, deny, target, name, count, lines) ==
    LET full == PathJoin(target, name)
        rel == RelPath(full, workdir)
    IN IF count >= MaxEntries
       THEN [stop |-> TRUE, count |-> count,
             lines |-> Append(lines, [k |-> "TRUNC", name |-> <<>>, size |-> 0])]
       ELSE IF IsDenied(rel, deny) THEN [stop |-> FALSE, count |-> count, lines |-> lines]
       ELSE [stop |-> FALSE, count |-> count + 1,
             lines |-> Append(lines, [k |-> "FILE", name |-> name, size |-> 0])]

\* one iteration of the loop over entries: [stop] is the break
ListEntry(f, workdir, deny, target, name, count, lines) ==
    LET full == PathJoin(target, name)
        rel == RelPath(full, workdir)
    IN IF IsDenied(rel, deny) THEN [stop |-> FALSE, count |-> count, lines |-> lines]
       ELSE IF count >= MaxEntries
       THEN [stop |-> TRUE, count |-> count,
             lines |-> Append(lines, [k |-> "TRUNC", name |-> <<>>, size |-> 0])]
       ELSE IF IsDir(f, full)
       THEN [stop |-> FALSE, count |-> count + 1,
             lines |-> Append(lines, [k |-> "DIR", name |-> name, size |-> 0])]
       ELSE [stop |-> FALSE, count |-> count + 1,
             lines |-> Append(lines, [k |-> "FILE", name |-> name, size |-> GetSize(f, full)])]

ListTarget == AbsPath(PathJoin(Workdir(fsCfg), CurDir))

ListEntryStep ==
    /\ listPc = "loop"
    /\ entIdx <= Len(dirEntries)
    /\ LET r == ListEntry(fs, Workdir(fsCfg), fsCfg.deny, ListTarget, dirEntries[entIdx],
                          entCount, listLines)
       IN /\ listLines' = r.lines
          /\ entCount' = r.count
          /\ listPc' = IF r.stop THEN "done" ELSE "loop"
    /\ entIdx' = entIdx + 1
    /\ UNCHANGED dirEntries
    /\ UNCHANGED notList

\* the loop ran out of entries: return "\n".join(lines)
ListEnd ==
    /\ listPc = "loop"
    /\ entIdx > Len(dirEntries)
    /\ listPc' = "done"
    /\ UNCHANGED <<dirEntries, entIdx, entCount, listLines>>
    /\ UNCHANGED notList

ListNext == ListEntryStep \/ ListEnd

(***************************************************************************)
(* Specifications: one per subsystem, the others at rest                   *)
(***************************************************************************)
FsInit ==
    /\ \E w \in FsWorlds : fs = w.fs /\ unreadable = w.unreadable
    /\ fsCfg \in FsConfigs
    /\ fsCall = Idle
    /\ fsResult = None
    /\ fsIO = <<>>
    /\ prFiles = ListingFailed
    /\ filePath = FileF
    /\ line = 1
    /\ scanPc = "start"
    /\ patchLines = <<>>
    /\ idx = 0
    /\ pos = 0
    /\ newLineCur = None
    /\ reviewPosition = Unset
    /\ environ = Env(None, None, None)
    /\ eventFile = [state |-> "missing"]
    /\ ghCall = GhIdle
    /\ ghResult = None
    /\ apiLog = <<>>
    /\ prComments = <<>>
    /\ registry = InitialRegistry
    /\ registered = 0
    /\ registerLog = <<>>
    /\ factoryCall = NoCall
    /\ factoryResult = None
    /\ repo = Repo("missing", "missing", FALSE, FALSE)
    /\ gitCall = GitIdle
    /\ gitResult = None
    /\ spawned = <<>>
    /\ lastRun = None
    /\ earlier = NoEarlier
    /\ instSpec = None
    /\ tools = <<>>
    /\ observed = <<>>
    /\ dirEntries = <<>>
    /\ entIdx = 0
    /\ entCount = 0
    /\ listLines = <<>>
    /\ listPc = "idle"
    /\ agentArgs = None
    /\ agentPc = "idle"
    /\ llmTemperature = None
    /\ exitCode = None

DiffInit ==
    /\ prFiles \in Listings
    /\ filePath = FileF
    /\ line \in 1..MaxTarget
    /\ scanPc = "start"
    /\ patchLines = <<>>
    /\ idx = 0
    /\ pos = 0
    /\ newLineCur = None
    /\ reviewPosition = Unset
    /\ fs = FsEmpty
    /\ unreadable = {}
    /\ fsCfg = Cfg(PyStr(Slash \o W), <<>>, None)
    /\ fsCall = Idle
    /\ fsResult = None
    /\ fsIO = <<>>
    /\ environ = Env(None, None, None)
    /\ eventFile = [state |-> "missing"]
    /\ ghCall = GhIdle
    /\ ghResult = None
    /\ apiLog = <<>>
    /\ prComments = <<>>
    /\ registry = InitialRegistry
    /\ registered = 0
    /\ registerLog = <<>>
    /\ factoryCall = NoCall
    /\ factoryResult = None
    /\ repo = Repo("missing", "missing", FALSE, FALSE)
    /\ gitCall = GitIdle
    /\ gitResult = None
    /\ spawned = <<>>
    /\ lastRun = None
    /\ earlier = NoEarlier
    /\ instSpec = None
    /\ tools = <<>>
    /\ observed = <<>>
    /\ dirEntries = <<>>
    /\ entIdx = 0
    /\ entCount = 0
    /\ listLines = <<>>
    /\ listPc = "idle"
    /\ agentArgs = None
    /\ agentPc = "idle"
    /\ llmTemperature = None
    /\ exitCode = None

GhInit ==
    /\ environ \in Environments
    /\ eventFile \in EventFiles
    /\ ghCall = GhIdle
    /\ ghResult = None
    /\ apiLog = <<>>
    /\ prComments = <<>>
    /\ fs = FsEmpty
    /\ unreadable = {}
    /\ fsCfg = Cfg(PyStr(Slash \o W), <<>>, None)
    /\ fsCall = Idle
    /\ fsResult = None
    /\ fsIO = <<>>
    /\ prFiles = ListingFailed
    /\ filePath = FileF
    /\ line = 1
    /\ scanPc = "start"
    /\ patchLines = <<>>
    /\ idx = 0
    /\ pos = 0
    /\ newLineCur = None
    /\ reviewPosition = Unset
    /\ registry = InitialRegistry
    /\ registered = 0
    /\ registerLog = <<>>
    /\ factoryCall = NoCall
    /\ factoryResult = None
    /\ repo = Repo("missing", "missing", FALSE, FALSE)
    /\ gitCall = GitIdle
    /\ gitResult = None
    /\ spawned = <<>>
    /\ lastRun = None
    /\ earlier = NoEarlier
    /\ instSpec = None
    /\ tools = <<>>
    /\ observed = <<>>
    /\ dirEntries = <<>>
    /\ entIdx = 0
    /\ entCount = 0
    /\ listLines = <<>>
    /\ listPc = "idle"
    /\ agentArgs = None
    /\ agentPc = "idle"
    /\ llmTemperature = None
    /\ exitCode = None

FactoryInit ==
    /\ registry = InitialRegistry
    /\ registered = 0
    /\ registerLog = <<>>
    /\ factoryCall = NoCall
    /\ factoryResult = None
    /\ fs = FsEmpty
    /\ unreadable = {}
    /\ fsCfg = Cfg(PyStr(Slash \o W), <<>>, None)
    /\ fsCall = Idle
    /\ fsResult = None
    /\ fsIO = <<>>
    /\ prFiles = ListingFailed
    /\ filePath = FileF
    /\ line = 1
    /\ scanPc = "start"
    /\ patchLines = <<>>
    /\ idx = 0
    /\ pos = 0
    /\ newLineCur = None
    /\ reviewPosition = Unset
    /\ environ = Env(None, None, None)
    /\ eventFile = [state |-> "missing"]
    /\ ghCall = GhIdle
    /\ ghResult = None
    /\ apiLog = <<>>
    /\ prComments = <<>>
    /\ repo = Repo("missing", "missing", FALSE, FALSE)
    /\ gitCall = GitIdle
    /\ gitResult = None
    /\ spawned = <<>>
    /\ lastRun = None
    /\ earlier = NoEarlier
    /\ instSpec = None
    /\ tools = <<>>
    /\ observed = <<>>
    /\ dirEntries = <<>>
    /\ entIdx = 0
    /\ entCount = 0
    /\ listLines = <<>>
    /\ listPc = "idle"
    /\ agentArgs = None
    /\ agentPc = "idle"
    /\ llmTemperature = None
    /\ exitCode = None

GitInit ==
    /\ registry = InitialRegistry
    /\ registered = 0
    /\ registerLog = <<>>
    /\ factoryCall = NoCall
    /\ factoryResult = None
    /\ fs = FsEmpty
    /\ unreadable = {}
    /\ fsCfg = Cfg(PyStr(Slash \o W), <<>>, None)
    /\ fsCall = Idle
    /\ fsResult = None
    /\ fsIO = <<>>
    /\ prFiles = ListingFailed
    /\ filePath = FileF
    /\ line = 1
    /\ scanPc = "start"
    /\ patchLines = <<>>
    /\ idx = 0
    /\ pos = 0
    /\ newLineCur = None
    /\ reviewPosition = Unset
    /\ environ = Env(None, None, None)
    /\ eventFile = [state |-> "missing"]
    /\ ghCall = GhIdle
    /\ ghResult = None
    /\ apiLog = <<>>
    /\ prComments = <<>>
    /\ repo \in Repos
    /\ gitCall = GitIdle
    /\ gitResult = None
    /\ spawned = <<>>
    /\ lastRun = None
    /\ earlier = NoEarlier
    /\ instSpec = None
    /\ tools = <<>>
    /\ observed = <<>>
    /\ dirEntries = <<>>
    /\ entIdx = 0
    /\ entCount = 0
    /\ listLines = <<>>
    /\ listPc = "idle"
    /\ agentArgs = None
    /\ agentPc = "idle"
    /\ llmTemperature = None
    /\ exitCode = None

InstInit ==
    /\ \E w \in FsWorlds : fs = w.fs /\ unreadable = w.unreadable
    /\ fsCfg = Cfg(PyStr(Slash \o W), <<>>, None)
    /\ fsCall = Idle
    /\ fsResult = None
    /\ fsIO = <<>>
    /\ prFiles = ListingFailed
    /\ filePath = FileF
    /\ line = 1
    /\ scanPc = "start"
    /\ patchLines = <<>>
    /\ idx = 0
    /\ pos = 0
    /\ newLineCur = None
    /\ reviewPosition = Unset
    /\ environ = Env(None, None, None)
    /\ eventFile = [state |-> "missing"]
    /\ ghCall = GhIdle
    /\ ghResult = None
    /\ apiLog = <<>>
    /\ prComments = <<>>
    /\ registry = InitialRegistry
    /\ registered = 0
    /\ registerLog = <<>>
    /\ factoryCall = NoCall
    /\ factoryResult = None
    /\ repo = Repo("missing", "missing", FALSE, FALSE)
    /\ gitCall = GitIdle
    /\ gitResult = None
    /\ spawned = <<>>
    /\ lastRun = None
    /\ earlier = NoEarlier
    /\ instSpec \in InstSpecs
    /\ tools = [i \in Instances |-> CreateRun(InitialRegistry, instSpec)]
    /\ observed = [i \in Instances |-> {}]
    /\ dirEntries = <<>>
    /\ entIdx = 0
    /\ entCount = 0
    /\ listLines = <<>>
    /\ listPc = "idle"
    /\ agentArgs = None
    /\ agentPc = "idle"
    /\ llmTemperature = None
    /\ exitCode = None

ListInit ==
    /\ registry = InitialRegistry
    /\ registered = 0
    /\ registerLog = <<>>
    /\ factoryCall = NoCall
    /\ factoryResult = None
    /\ unreadable = {}
    /\ \E d \in BigDenies : fsCfg = Cfg(PyStr(Slash \o W), d, None)
    /\ fsCall = Idle
    /\ fsResult = None
    /\ fsIO = <<>>
    /\ prFiles = ListingFailed
    /\ filePath = FileF
    /\ line = 1
    /\ scanPc = "start"
    /\ patchLines = <<>>
    /\ idx = 0
    /\ pos = 0
    /\ newLineCur = None
    /\ reviewPosition = Unset
    /\ environ = Env(None, None, None)
    /\ eventFile = [state |-> "missing"]
    /\ ghCall = GhIdle
    /\ ghResult = None
    /\ apiLog = <<>>
    /\ prComments = <<>>
    /\ repo = Repo("missing", "missing", FALSE, FALSE)
    /\ gitCall = GitIdle
    /\ gitResult = None
    /\ spawned = <<>>
    /\ lastRun = None
    /\ earlier = NoEarlier
    /\ instSpec = None
    /\ tools = <<>>
    /\ observed = <<>>
    /\ \E n \in DirSizes : fs = BigFs(n) /\ dirEntries = [i \in 1..n |-> EntryName(i - 1)]
    /\ entIdx = 1
    /\ entCount = 0
    /\ listLines = <<>>
    /\ listPc = "loop"
    /\ agentArgs = None
    /\ agentPc = "idle"
    /\ llmTemperature = None
    /\ exitCode = None

AgentInit ==
    /\ registry = InitialRegistry
    /\ registered = 0
    /\ registerLog = <<>>
    /\ factoryCall = NoCall
    /\ factoryResult = None
    /\ unreadable = {}
    /\ fsCfg = Cfg(PyStr(Slash \o W), <<>>, None)
    /\ fsCall = Idle
    /\ fsResult = None
    /\ fsIO = <<>>
    /\ prFiles = ListingFailed
    /\ filePath = FileF
    /\ line = 1
    /\ scanPc = "start"
    /\ patchLines = <<>>
    /\ idx = 0
    /\ pos = 0
    /\ newLineCur = None
    /\ reviewPosition = Unset
    /\ environ = Env(None, None, None)
    /\ eventFile = [state |-> "missing"]
    /\ ghCall = GhIdle
    /\ ghResult = None
    /\ apiLog = <<>>
    /\ prComments = <<>>
    /\ repo = Repo("missing", "missing", FALSE, FALSE)
    /\ gitCall = GitIdle
    /\ gitResult = None
    /\ spawned = <<>>
    /\ lastRun = None
    /\ earlier = NoEarlier
    /\ instSpec = None
    /\ tools = <<>>
    /\ observed = <<>>
    /\ fs = FsEmpty
    /\ dirEntries = <<>>
    /\ entIdx = 0
    /\ entCount = 0
    /\ listLines = <<>>
    /\ listPc = "idle"
    /\ agentArgs \in AgentRuns
    /\ agentPc = "start"
    /\ llmTemperature = None
    /\ exitCode = None

SpecFS == FsInit /\ [][FsNext]_vars
SpecDiff == DiffInit /\ [][DiffNext]_vars
SpecReview == GhInit /\ [][GhNext]_vars
SpecFactory == FactoryInit /\ [][FactoryNext]_vars
SpecGit == GitInit /\ [][GitNext]_vars
SpecInstances == InstInit /\ [][InstNext]_vars
SpecList == ListInit /\ [][ListNext]_vars
SpecAgent == AgentInit /\ [][AgentNext]_vars

(***************************************************************************)
(* Sandbox properties                                                      *)
(***************************************************************************)
IsPrefixOf(a, b) == Len(a) <= Len(b) /\ SubSeq(b, 1, Len(a)) = a

\* where a path leads when its segments are followed one by one from a
\* directory: '..' goes up (the root is its own parent), '.' and empty
\* segments stay, a name goes down
RECURSIVE Follow(_, _)
Follow(at, segs) ==
    IF segs = <<>> THEN at
    ELSE IF Head(segs) = ParDir
         THEN Follow(IF at = <<>> THEN at ELSE SubSeq(at, 1, Len(at) - 1), Tail(segs))
    ELSE IF Head(segs) = CurDir \/ Head(segs) = <<>> THEN Follow(at, Tail(segs))
    ELSE Follow(Append(at, Head(segs)), Tail(segs))

Lead(from, path) == Follow(IF IsAbs(path) THEN <<>> ELSE from, Split(path, "/"))

WorkdirSegs == Lead(<<>>, fsCfg.workdir.v)
CallTargetSegs == Lead(WorkdirSegs, fsCall.path)

LeavesWorkdir == ~IsPrefixOf(WorkdirSegs, CallTargetSegs)

\* C1: a sandbox tool called with a path that leads outside the workdir
\* (by '..', by an absolute path, or into a sibling whose name merely starts
\* with the workdir's name) returns the outside-the-working-directory refusal
\* and touches the filesystem not at all.
C1_OutsideDeniedWithoutIO ==
    (fsCall # Idle /\ LeavesWorkdir)
        => (fsResult = Text("AccessDeniedOutside", fsCall.path) /\ fsIO = <<>>)

\* C1 happens: read_file has refused a path into the existing sibling /wx
C1_Witness ==
    /\ fsCall # Idle
    /\ fsCall.tool = "read_file"
    /\ CallTargetSegs = <<WX, A>>
    /\ <<WX, A>> \in DOMAIN fs
    /\ WorkdirSegs = <<W>>
    /\ fsResult.tag = "AccessDeniedOutside"

\* an entry, given by its segments below the workdir (none: the workdir
\* itself, whose relative path is '.'), matches the deny list
MatchesDeny(relSegs, deny) ==
    \E k \in 1..Len(deny) :
        \/ FnMatch(IF relSegs = <<>> THEN CurDir ELSE JoinWith(Slash, relSegs), deny[k])
        \/ FnMatch(IF relSegs = <<>> THEN CurDir ELSE relSegs[Len(relSegs)], deny[k])

RelSegs(segs) == SubSeq(segs, Len(WorkdirSegs) + 1, Len(segs))

\* C2: no listing line, no search match line and no file content is ever
\* produced for an entry whose workdir-relative path or whose basename
\* matches a configured deny pattern.
C2_DeniedNeverShown ==
    /\ (fsCall # Idle /\ fsCall.tool = "list_directory" /\ fsResult.tag = "Listing")
           => \A i \in 1..Len(fsResult.lines) :
                  fsResult.lines[i].k = "TRUNC"
                  \/ ~MatchesDeny(RelSegs(Append(CallTargetSegs, fsResult.lines[i].name)),
                                  fsCfg.deny)
    /\ (fsCall # Idle /\ fsCall.tool = "search_in_files" /\ fsResult.tag = "Matches")
           => \A i \in 1..Len(fsResult.lines) :
                  ~MatchesDeny(Split(fsResult.lines[i].rel, "/"), fsCfg.deny)
    /\ (fsCall # Idle /\ fsCall.tool = "read_file" /\ fsResult.tag = "Content")
           => ~MatchesDeny(RelSegs(CallTargetSegs), fsCfg.deny)

\* C2 happens: a directory holding a file denied by its basename only was
\* listed, and the listing shows other entries
C2_Witness ==
    /\ fsCall # Idle
    /\ fsCall.tool = "list_directory"
    /\ fsResult.tag = "Listing"
    /\ Len(fsResult.lines) > 0
    /\ \E r \in DOMAIN fs :
           /\ Len(r) = Len(CallTargetSegs) + 1
           /\ IsPrefixOf(CallTargetSegs, r)
           /\ Len(RelSegs(r)) = 2
           /\ MatchesDeny(RelSegs(r), fsCfg.deny)
           /\ ~\E k \in 1..Len(fsCfg.deny) : FnMatch(JoinWith(Slash, RelSegs(r)), fsCfg.deny[k])

(***************************************************************************)
(* Diff-position properties                                                *)
(***************************************************************************)
IsHeaderLine(raw) == StartsWith(raw, <<"@", "@">>)
IsRemovedLine(raw) == StartsWith(raw, <<"-">>)
\* a context or added line
IsCountedLine(raw) == StartsWith(raw, <<" ">>) \/ StartsWith(raw, <<"+">>)

MaxOf(xs) == CHOOSE x \in xs : \A y \in xs : y <= x
MinOf(xs) == CHOOSE x \in xs : \A y \in xs : x <= y

\* the '@@' line that governs patch line i: the last one before it, or 0
GoverningHeader(ls, i) == MaxOf({0} \cup {j \in 1..(i - 1) : IsHeaderLine(ls[j])})

\* line i lies in a hunk: its governing '@@' line is a valid hunk header
InHunk(ls, i) ==
    GoverningHeader(ls, i) # 0 /\ HunkNewStart(ls[GoverningHeader(ls, i)]) # None

\* the new-file line number of the context/added line i of a hunk: newStart
\* plus the number of context/added lines before it in that hunk
NewFileLine(ls, i) ==
    LET h == GoverningHeader(ls, i)
    IN HunkNewStart(ls[h]).v + Cardinality({k \in (h + 1)..(i - 1) : IsCountedLine(ls[k])})

\* the context/added lines in hunks whose new-file line number is target
Hits(ls, target) ==
    {i \in 1..Len(ls) : IsCountedLine(ls[i]) /\ InHunk(ls, i) /\ NewFileLine(ls, i) = target}

Scanned == scanPc = "done" /\ patchLines # <<>>

ExampleMapsAsStated ==
    (Scanned /\ patchLines = ExamplePatch)
        => reviewPosition = (IF line <= 3 THEN PyInt(line) ELSE None)

\* C3 as stated: the position is the count of ALL context and added lines
\* from the start of the patch up to and including the first hit.
C3_CountsEveryContentLine ==
    /\ Scanned =>
           reviewPosition =
               (IF Hits(patchLines, line) = {} THEN None
                ELSE PyInt(Cardinality({k \in 1..MinOf(Hits(patchLines, line)) :
                                            IsCountedLine(patchLines[k])})))
    /\ ExampleMapsAsStated

\* C3, amended: the position is the count of the context and added lines
\* that lie in a hunk (after a valid hunk header), from the start of the
\* patch up to and including the first hit; without a hit there is no
\* position; the example patch maps 1, 2, 3 to 1, 2, 3 and 4 to none.
C3_PositionCountsHunkLines ==
    /\ Scanned =>
           reviewPosition =
               (IF Hits(patchLines, line) = {} THEN None
                ELSE PyInt(Cardinality({k \in 1..MinOf(Hits(patchLines, line)) :
                                            IsCountedLine(patchLines[k]) /\ InHunk(patchLines, k)})))
    /\ ExampleMapsAsStated

\* C3 happens: a position was returned for a line preceded by a removed line
\* and by lines outside any hunk
C3_Witness ==
    /\ Scanned
    /\ reviewPosition # None
    /\ \E k \in 1..(idx - 1) : IsRemovedLine(patchLines[k]) /\ InHunk(patchLines, k)
    /\ \E k \in 1..(idx - 1) : IsCountedLine(patchLines[k]) /\ ~InHunk(patchLines, k)

Stepping == scanPc = "scan" /\ idx <= Len(patchLines)

\* C4 as stated: the counter starts at 0, a header and a removed line leave
\* it alone, and EVERY context or added line adds one to the counter and to
\* the cursor (the cursor is not looked at on the step that returns).
C4_EveryContentLineCounts ==
    [][/\ (scanPc = "start" /\ scanPc' = "scan") => pos' = 0
       /\ Stepping =>
              /\ pos' >= pos
              /\ IsHeaderLine(patchLines[idx]) => pos' = pos
              /\ IsRemovedLine(patchLines[idx]) => (pos' = pos /\ newLineCur' = newLineCur)
              /\ IsCountedLine(patchLines[idx]) =>
                     /\ pos' = pos + 1
                     /\ (scanPc' = "done" \/ newLineCur' = PyInt(newLineCur.v + 1))]_vars

\* C4, amended: the counter starts at 0 and never decreases; a header and a
\* removed line leave it alone, a removed line leaves the cursor alone too;
\* a context or added line scanned while the cursor is set adds exactly one
\* to the counter and either is the match, which returns the counter, or
\* adds exactly one to the cursor; a context or added line scanned while the
\* cursor is unset changes neither.
C4_CounterNeverResets ==
    [][/\ (scanPc = "start" /\ scanPc' = "scan") => pos' = 0
       /\ Stepping =>
              /\ pos' >= pos
              /\ IsHeaderLine(patchLines[idx]) => pos' = pos
              /\ IsRemovedLine(patchLines[idx]) => (pos' = pos /\ newLineCur' = newLineCur)
              /\ (IsCountedLine(patchLines[idx]) /\ newLineCur = None) =>
                     (pos' = pos /\ newLineCur' = None /\ scanPc' = "scan")
              /\ (IsCountedLine(patchLines[idx]) /\ newLineCur # None) =>
                     /\ pos' = pos + 1
                     /\ IF newLineCur.v = line
                        THEN scanPc' = "done" /\ reviewPosition' = PyInt(pos + 1)
                        ELSE scanPc' = "scan" /\ newLineCur' = PyInt(newLineCur.v + 1)]_vars

\* C4 happens: a match in a second hunk returned a position that counts the
\* first hunk's lines
C4_Witness ==
    /\ Scanned
    /\ reviewPosition # None
    /\ Cardinality({k \in 1..idx : IsHeaderLine(patchLines[k])
                                   /\ HunkNewStart(patchLines[k]) # None}) >= 2
    /\ \E k \in 1..idx : IsCountedLine(patchLines[k]) /\ GoverningHeader(patchLines, k) = 1
    /\ reviewPosition.v >= 2

FirstNamed(files, name) == MinOf({k \in 1..Len(files) : files[k].filename = name})

\* C5: the computation reports no position exactly when listing the PR files
\* fails, the file is not among them, its patch is missing or empty, or no
\* context/added line of the patch has the target as its new-file line.
C5_NoPositionExactlyWhen ==
    scanPc = "done" =>
        (reviewPosition = None
         <=> \/ ~prFiles.ok
             \/ ~\E k \in 1..Len(prFiles.files) : prFiles.files[k].filename = filePath
             \/ prFiles.files[FirstNamed(prFiles.files, filePath)].patch = None
             \/ prFiles.files[FirstNamed(prFiles.files, filePath)].patch.v = <<>>
             \/ Hits(prFiles.files[FirstNamed(prFiles.files, filePath)].patch.v, line) = {})

\* C5 happens: a patch with a valid hunk was scanned to its end without a hit
C5_Witness ==
    /\ Scanned
    /\ reviewPosition = None
    /\ \E k \in 1..Len(patchLines) : IsCountedLine(patchLines[k]) /\ InHunk(patchLines, k)

(***************************************************************************)
(* Review-comment properties                                               *)
(***************************************************************************)
InSeq(x, s) == \E i \in 1..Len(s) : s[i] = x
Posting == ghCall.tool = "post_review_comment"
ListingComments == ghCall.tool = "list_review_comments"

\* the call got as far as computing the position, and what it computed
PositionComputed == Posting /\ InSeq("get_files", apiLog)
ComputedPosition ==
    ComputeReviewPosition(ghCall.api.listing, ghCall.payload.v.file.v,
                          NumVal(ghCall.payload.v.line))

\* C6: with valid inputs and no position, no inline comment is attempted,
\* exactly one general comment naming file and line and saying the diff
\* position was not found is created, and the returned text says that no
\* position could be determined.
C6_NoPositionGeneralComment ==
    (PositionComputed /\ ComputedPosition = None) =>
        /\ ~InSeq("create_comment", apiLog)
        /\ prComments = <<GeneralComment(ghCall.payload.v.file.v, ghCall.payload.v.line,
                                         ghCall.payload.v.comment.v, "Diff position not found")>>
        /\ ghResult = Msg("NoPositionGeneralAdded")

\* C7: with a position, one inline comment is attempted first; when it
\* succeeds it is the only comment and the text reports file, line and
\* position; when it fails one general comment stating file and line is
\* created and the text says the inline attempt failed.
C7_InlineThenFallback ==
    (PositionComputed /\ ComputedPosition # None) =>
        /\ apiLog[4] = "create_comment"
        /\ Cardinality({i \in 1..Len(apiLog) : apiLog[i] = "create_comment"}) = 1
        /\ IF ghCall.api.inlineOk
           THEN /\ prComments = <<InlineComment(ghCall.payload.v.comment.v,
                                                ghCall.payload.v.file.v, ComputedPosition)>>
                /\ ghResult.kind = "text" /\ ghResult.tag = "CommentAdded"
                /\ ghResult.file = ghCall.payload.v.file.v
                /\ ghResult.line = ghCall.payload.v.line
                /\ ghResult.position = ComputedPosition
           ELSE /\ prComments = <<GeneralComment(ghCall.payload.v.file.v, ghCall.payload.v.line,
                                                 ghCall.payload.v.comment.v,
                                                 "Failed to create inline comment")>>
                /\ ghResult = Msg("InlineFailedGeneralAdded")

UnsetOrEmpty(v) == v.t = "none" \/ (v.t = "str" /\ v.v = <<>>)

\* the environment variables that are unset or empty, in the order asked for
EnvMissingNames ==
    SelectSeq(<<"GITHUB_TOKEN", "GITHUB_REPOSITORY", "GITHUB_EVENT_PATH">>,
              LAMBDA n : CASE n = "GITHUB_TOKEN" -> UnsetOrEmpty(environ.token)
                           [] n = "GITHUB_REPOSITORY" -> UnsetOrEmpty(environ.repo)
                           [] OTHER -> UnsetOrEmpty(environ.event_path))

EventIsJson == eventFile.state = "json"
WellFormedEvent ==
    /\ EventIsJson
    /\ eventFile.json.t = "dict"
    /\ eventFile.json.pull_request.t \in {"absent", "dict"}
    /\ eventFile.json.pull_request.t = "dict" =>
           eventFile.json.pull_request.head.t \in {"absent", "dict"}
HasPrNumber ==
    /\ WellFormedEvent
    /\ \/ /\ eventFile.json.pull_request.t = "dict"
          /\ eventFile.json.pull_request.number.t = "int"
          /\ eventFile.json.pull_request.number.v # 0
       \/ /\ eventFile.json.pull_request.t = "dict" => ~Truthy(eventFile.json.pull_request.number)
          /\ eventFile.json.number.t = "int"
HasHeadSha ==
    /\ WellFormedEvent
    /\ eventFile.json.pull_request.t = "dict"
    /\ eventFile.json.pull_request.head.t = "dict"
    /\ eventFile.json.pull_request.head.sha.t = "str"
    /\ eventFile.json.pull_request.head.sha.v # <<>>

PayloadPasses == ghCall.payload.t = "json" /\ PayloadError(ghCall.payload.v) = "ok"
Called == ListingComments \/ (Posting /\ PayloadPasses)

\* the event descriptor can be located and is a well-formed event
EventRead == ~UnsetOrEmpty(environ.event_path) /\ WellFormedEvent

\* the identity inputs that are missing: the environment's, and those of an
\* event descriptor that can be read
MissingIdentity ==
    {EnvMissingNames[i] : i \in 1..Len(EnvMissingNames)}
    \cup (IF EventRead /\ ~HasPrNumber THEN {"PR number"} ELSE {})
    \cup (IF Posting /\ EventRead /\ ~HasHeadSha THEN {"head SHA"} ELSE {})

NamedIn(r) ==
    IF r.tag = "MissingEnvironmentVariables" THEN {r.missing[i] : i \in 1..Len(r.missing)}
    ELSE IF r.tag = "FailedToDeterminePrNumber" THEN {"PR number"}
    ELSE {}

ValidationTags ==
    {"InvalidInputJson", "ExpectedJsonObject", "FileFieldRequired", "LineFieldRequired",
     "CommentFieldRequired"}

PayloadIsObject == ghCall.payload.t = "json" /\ ghCall.payload.v.t = "dict"
FileValid == ghCall.payload.v.file.t = "str" /\ ghCall.payload.v.file.v # <<>>
LineValid == ghCall.payload.v.line.t = "int" /\ ghCall.payload.v.line.v > 0
CommentValid ==
    /\ ghCall.payload.v.comment.t = "str"
    /\ \E i \in 1..Len(ghCall.payload.v.comment.v) : ~IsSpace(ghCall.payload.v.comment.v[i])

\* C9: a payload is accepted only if it is a JSON object with file a
\* non-empty string, line a positive integer and comment non-empty after
\* trimming; any other payload gets the validation message of its first
\* offending field, no API call is made and no comment is created.
C9_PayloadAcceptedOnlyIfValid ==
    (Posting /\ EnvMissingNames = <<>> /\ eventFile.state # "missing") =>
        IF PayloadIsObject /\ FileValid /\ LineValid /\ CommentValid
        THEN ghResult.tag \notin ValidationTags
        ELSE /\ ghResult.kind = "text"
             /\ ghResult.tag \in ValidationTags
             /\ PayloadIsObject =>
                    ghResult.tag = (IF ~FileValid THEN "FileFieldRequired"
                                    ELSE IF ~LineValid THEN "LineFieldRequired"
                                    ELSE "CommentFieldRequired")
             /\ apiLog = <<>>
             /\ prComments = <<>>

(***************************************************************************)
(* ToolFactory properties                                                  *)
(***************************************************************************)
Trimmed(s) ==
    LET ns == {i \in 1..Len(s) : ~IsSpace(s[i])}
    IN IF ns = {} THEN <<>> ELSE SubSeq(s, MinOf(ns), MaxOf(ns))

\* the field is missing or empty after trimming
Blank(v) == v = Absent \/ (v.t = "str" /\ Trimmed(v.v) = <<>>)

\* C10: create raises the invalid-specification error when name or type is
\* missing or empty after trimming, the unknown-tool error when both are
\* non-empty and no builder is registered for the (type, name) pair, and
\* otherwise returns what the builder registered for the pair returns for
\* the spec's config mapping, an empty mapping when there is none.
C10_CreateDispatch ==
    factoryCall.t = "create" =>
        LET spec == factoryCall.spec
            tType == Trimmed(StrOf(spec.type))
            tName == Trimmed(StrOf(spec.name))
        IN IF Blank(spec.name) \/ Blank(spec.type)
           THEN factoryResult.kind = "raise" /\ factoryResult.msg = "InvalidSpecification"
           ELSE IF ~(tType \in DOMAIN registry /\ tName \in DOMAIN registry[tType])
           THEN factoryResult.kind = "raise" /\ factoryResult.msg = "UnknownTool"
           ELSE factoryResult =
                    Build(registry[tType][tName],
                          IF spec.config.t = "dict" THEN spec.config ELSE EmptyDict)

\* C10 happens: a spec with padded name and type and no config was handed
\* to the builder registered for the pair, with an empty mapping
C10_Witness ==
    /\ factoryCall.t = "create"
    /\ factoryCall.spec.name = PyStr(<<" ">> \o list_directory \o <<NL>>)
    /\ factoryCall.spec.type = PyStr(filesystem \o <<" ">>)
    /\ factoryCall.spec.config = Absent
    /\ factoryResult = Build("custom_a", EmptyDict)

\* the register calls made for the pair (t, n), by position in the log
CallsFor(t, n) == {i \in 1..Len(registerLog) : registerLog[i].type = t /\ registerLog[i].name = n}

\* the builder the pair should have: the one of the most recent register
\* call for it, else the built-in one, else none
ExpectedBuilder(t, n) ==
    IF CallsFor(t, n) # {} THEN registerLog[MaxOf(CallsFor(t, n))].builder
    ELSE IF t \in DOMAIN InitialRegistry /\ n \in DOMAIN InitialRegistry[t]
    THEN InitialRegistry[t][n]
    ELSE "none"

RegistryLookup(t, n) ==
    IF t \in DOMAIN registry /\ n \in DOMAIN registry[t] THEN registry[t][n] ELSE "none"

\* C11: the registry holds, for every pair, the builder of the most recent
\* register call for it (so a repeated call changes nothing, a call for one
\* pair leaves every other pair alone, and create leaves the registry
\* alone), and create for a registered type t and name n dispatches to
\* that builder.
C11_CreateAfterRegister ==
    /\ \A t \in RegisterTypes \cup DOMAIN InitialRegistry :
           \A n \in RegisterNames \cup UNION {DOMAIN InitialRegistry[u] : u \in DOMAIN InitialRegistry} :
               RegistryLookup(t, n) = ExpectedBuilder(t, n)
    /\ \A t \in RegisterTypes, n \in RegisterNames :
           (/\ CallsFor(t, n) # {}
            /\ factoryCall.t = "create"
            /\ factoryCall.spec.type = PyStr(t)
            /\ factoryCall.spec.name = PyStr(n))
               => (factoryResult.kind = "tool" /\ factoryResult.builder = ExpectedBuilder(t, n))

(***************************************************************************)
(* Sandbox tools never raise                                               *)
(***************************************************************************)
\* C12: every invocation of list_directory, read_file and search_in_files
\* returns text and never raises, also when the target changes between the
\* tool's checks and its listing, stat or open.
C12_SandboxToolsNeverRaise ==
    fsCall # Idle => fsResult.kind = "text"

(***************************************************************************)
(* Version-control tools: properties                                       *)
(***************************************************************************)
\* the value is a text string (Python str), not None and not an exception
IsText(v) == "kind" \in DOMAIN v /\ v.kind = "text"

\* an invocation of a version-control tool has run and not yet returned
GitRunning == gitCall # GitIdle

\* workdir does not exist, is not a directory, or has no .git entry
LacksRepository == repo.workdir # "dir" \/ repo.marker = "missing"

\* C13: for each of git_changed_files, git_diff, git_pr_diff and
\* git_pr_changed_files, when workdir does not exist, is not a directory or
\* lacks the repository marker, the invocation returns a not-a-repository
\* error text and spawns no subprocess at all.
C13_InvalidRepoNoSpawn ==
    (GitRunning /\ LacksRepository) =>
        /\ gitResult.kind = "text"
        /\ gitResult.tag = "NotARepository"
        /\ gitResult.why \in {"WorkingDirectoryDoesNotExist", "PathIsNotADirectory",
                              "NotAGitRepository"}
        /\ spawned = <<>>

\* C13 happens: git_pr_changed_files was invoked on a directory with no .git
\* entry and returned the not-a-repository text without spawning anything
C13_Witness ==
    /\ gitCall = [tool |-> "git_pr_changed_files"]
    /\ repo.workdir = "dir"
    /\ repo.marker = "missing"
    /\ gitResult = NotARepo("NotAGitRepository")
    /\ spawned = <<>>

\* the invocation in progress is one of the two pull-request tools
PrToolRunning == GitRunning /\ gitCall.tool \in {"git_pr_diff", "git_pr_changed_files"}

\* the subprocess exited with return code 0
Succeeded(p) == p.outcome.k = "exit" /\ p.outcome.rc = 0

\* the stage a spawned command belongs to: 1 verification (with the branch
\* listing of its diagnostic), 2 fetch, 3 diff
StageOf(p) ==
    CASE p.cmd \in {"show-ref --verify", "branch -r"} -> 1
      [] p.cmd = "fetch origin" -> 2
      [] OTHER -> 3

\* the diagnostic texts each stage ends an invocation with
StageDiagnostics(stage) ==
    CASE stage = 1 -> {"BaseBranchNotFound", "TimedOutCheckingBaseBranch", "ErrorCheckingBaseBranch"}
      [] stage = 2 -> {"GitCommandNotFound", "FetchTimedOut", "PermissionDenied",
                       "UnexpectedFetchError", "FetchFailed"}
      [] OTHER -> {"GitDiffFailed"}

\* the stage commands of the invocation that did not exit with code 0
FailedStages == {i \in DOMAIN spawned : spawned[i].cmd # "branch -r" /\ ~Succeeded(spawned[i])}

\* no stage runs before the stage in front of it exited with code 0, and
\* none after a stage failed
PrStagesOrdered ==
    /\ \A i \in DOMAIN spawned :
           /\ StageOf(spawned[i]) = 2 =>
                  i = 2 /\ spawned[1].cmd = "show-ref --verify" /\ Succeeded(spawned[1])
           /\ StageOf(spawned[i]) = 3 =>
                  i = 3 /\ StageOf(spawned[2]) = 2 /\ Succeeded(spawned[2])
    /\ \A i \in FailedStages :
           \A j \in DOMAIN spawned : StageOf(spawned[j]) <= StageOf(spawned[i])

\* C14: in git_pr_diff and git_pr_changed_files the stages run in the order
\* verification, fetch, diff; fetch is spawned only after verification
\* succeeded, diff only after fetch exited successfully, and a failure or
\* timeout of a stage ends the invocation with that stage's own diagnostic
\* text and no later stage runs.
C14_StagesInOrder ==
    PrToolRunning =>
        /\ PrStagesOrdered
        /\ \A i \in FailedStages :
               /\ IsText(gitResult)
               /\ gitResult.tag \in StageDiagnostics(StageOf(spawned[i]))

\* C15: when validation, base-branch verification and fetch all succeeded,
\* git_pr_changed_files returns the output of the name-only diff between the
\* base branch and HEAD as text when the diff succeeds and a diagnostic text
\* when it fails; the value a version-control tool returns is always text.
C15_PrChangedFilesReturnsDiff ==
    GitRunning =>
        /\ IsText(gitResult)
        /\ (gitCall.tool = "git_pr_changed_files" /\ Len(spawned) = 3) =>
               IF Succeeded(spawned[3])
               THEN Strip(spawned[3].outcome.out) # <<>> =>
                        /\ gitResult.tag = "Output"
                        /\ gitResult.text = Strip(spawned[3].outcome.out)
               ELSE gitResult.tag \in StageDiagnostics(3)

\* C16: _run_git_command never raises: for every way the subprocess can end
\* it returns a triple (success, stdout, stderr) where success is true
\* exactly when the process exited with return code 0; on a missing git
\* binary, a timeout or a permission failure success is false, stdout is
\* empty and stderr holds a diagnostic message.
C16_RunGitCommandNeverRaises ==
    lastRun # None =>
        LET o == lastRun.outcome
            triple == lastRun.triple
        IN /\ DOMAIN triple = {"success", "stdout", "stderr"}
           /\ triple.success \in BOOLEAN
           /\ triple.success <=> (o.k = "exit" /\ o.rc = 0)
           /\ (o.k = "raise" /\ o.exc \in {"FileNotFoundError", "TimeoutExpired", "PermissionError"}) =>
                  /\ ~triple.success
                  /\ triple.stdout = Proc(<<>>)
                  /\ triple.stderr.t = "diag"

\* C16 happens: a git command ran into its timeout and the primitive
\* returned (False, "", diagnostic)
C16_Witness ==
    /\ lastRun # None
    /\ lastRun.outcome = Thrown("TimeoutExpired")
    /\ lastRun.triple = Triple(FALSE, Proc(<<>>), Diag("GitCommandTimedOut"))

\* C17: git_diff requires at least one commit: on a valid repository without
\* commits it returns the 'no commits yet' error of its pre-check and does
\* not run the diff command; on a repository with commits it returns the
\* uncommitted diff text, or 'No changes to show' when the diff is empty.
C17_GitDiffNeedsCommit ==
    (GitRunning /\ gitCall.tool = "git_diff" /\ repo.workdir = "dir" /\ repo.marker = "repo") =>
        IF ~repo.commits
        THEN /\ gitResult.tag = "NotValidOrNoCommitsYet"
             /\ \A i \in DOMAIN spawned : spawned[i].cmd # "diff HEAD"
        ELSE (\A i \in DOMAIN spawned : Succeeded(spawned[i])) =>
                 /\ Len(spawned) = 2
                 /\ IF Strip(spawned[2].outcome.out) = <<>>
                    THEN gitResult = GitText("NoChangesToShow")
                    ELSE /\ gitResult.tag = "Output"
                         /\ gitResult.text = Strip(spawned[2].outcome.out)

\* the bound the claim states for a command, 0 where it states none
StatedBound(cmd) ==
    CASE cmd = "show-ref --verify" -> 10
      [] cmd = "fetch origin" -> 60
      [] cmd \in {"diff --name-only", "diff HEAD", "diff base...HEAD",
                  "diff --name-only base...HEAD"} -> 30
      [] OTHER -> 0

\* the subprocess ran into its timeout
TimedOut(p) == p.outcome = Thrown("TimeoutExpired")

\* C18: within one invocation of a version-control tool each command
\* (verification bounded by 10 s, fetch by 60 s, diff by 30 s) is spawned at
\* most once; when a command times out the invocation returns a failure
\* text and spawns nothing further, so no command is retried.
C18_NoRetryAfterTimeout ==
    GitRunning =>
        /\ \A i, j \in DOMAIN spawned : spawned[i].cmd = spawned[j].cmd => i = j
        /\ \A i \in DOMAIN spawned :
               StatedBound(spawned[i].cmd) # 0 => spawned[i].timeout = StatedBound(spawned[i].cmd)
        /\ \A i \in DOMAIN spawned :
               TimedOut(spawned[i]) =>
                   /\ i = Len(spawned)
                   /\ IsText(gitResult)
                   /\ gitResult.tag \notin {"Output", "NoChangesToShow"}

\* workdir is a directory and workdir/.git is a directory
HasRepository == repo.workdir = "dir" /\ repo.marker \in {"empty_dir", "repo"}

\* C19: repository validity is never cached: whatever earlier invocations
\* found, each invocation checks workdir and its marker anew before it
\* spawns anything; after the marker was removed it returns the
\* not-a-repository error, after the marker was created it proceeds.
C19_ValidityNeverCached ==
    GitRunning =>
        /\ LacksRepository =>
               /\ spawned = <<>>
               /\ IsText(gitResult)
               /\ gitResult.tag = "NotARepository"
        /\ HasRepository =>
               /\ spawned # <<>>
               /\ ~(IsText(gitResult) /\ gitResult.tag = "NotARepository")

\* C19 happens: git_diff got past validation, the marker was removed, and
\* the next git_diff returned the not-a-repository error
C19_Witness ==
    /\ earlier = [tool |-> "git_diff", valid |-> TRUE]
    /\ gitCall = [tool |-> "git_diff"]
    /\ repo.marker = "missing"
    /\ gitResult = NotARepo("NotAGitRepository")
    /\ spawned = <<>>

Shown(name) == ~IsDenied(RelPath(PathJoin(ListTarget, name), Workdir(fsCfg)), fsCfg.deny)

\* the names list_directory may show, in the order of the listing
ShownNames == SelectSeq(dirEntries, Shown)

\* the listing is what sorted(os.listdir(target)) yields for the directory
ListingIsSorted ==
    /\ {dirEntries[i] : i \in DOMAIN dirEntries} = ListDir(fs, ListTarget)
    /\ \A i \in 1..(Len(dirEntries) - 1) : StrLess(dirEntries[i], dirEntries[i + 1])

\* C21: for a directory with n children that no deny pattern hides (and
\* hidden ones anywhere in the sorted order), list_directory emits after its
\* header exactly min(n, 500) entry lines in lexicographic order of name,
\* then exactly one truncation marker when n > 500 and none when n <= 500.
C21_ListingCappedAt500 ==
    listPc = "done" =>
        LET names == ShownNames
            n == Len(names)
            shown == Min2(n, 500)
        IN /\ ListingIsSorted
           /\ Len(listLines) = shown + (IF n > 500 THEN 1 ELSE 0)
           /\ \A i \in 1..shown :
                  listLines[i].k \in {"DIR", "FILE"} /\ listLines[i].name = names[i]
           /\ n > 500 => listLines[shown + 1].k = "TRUNC"

\* C21 happens: 600 entries, none hidden, gave 500 entry lines and a marker
C21_Witness ==
    /\ listPc = "done"
    /\ Len(dirEntries) = 600
    /\ fsCfg.deny = <<>>
    /\ Len(listLines) = 501
    /\ listLines[500] = [k |-> "FILE", name |-> EntryName(499), size |-> 2]
    /\ listLines[501].k = "TRUNC"

(***************************************************************************)
(* read_file: line ranges and the order of its checks                      *)
(***************************************************************************)
ReadFileCalled == fsCall # Idle /\ fsCall.tool = "read_file"

\* the call's target is a readable file inside the workdir that no deny
\* pattern matches
AllowedFile ==
    /\ ~LeavesWorkdir
    /\ CallTargetSegs \in DOMAIN fs
    /\ fs[CallTargetSegs].kind = "file"
    /\ ~MatchesDeny(RelSegs(CallTargetSegs), fsCfg.deny)
    /\ CallTargetSegs \notin unreadable

\* a line without its line terminator
Chomp(l) == IF l # <<>> /\ l[Len(l)] = NL THEN SubSeq(l, 1, Len(l) - 1) ELSE l

\* the lines of the target with index in [start_line, end_line], a missing
\* bound open-ended
LinesInRange ==
    LET ls == fs[CallTargetSegs].lines
        inRange == {i \in 1..Len(ls) :
                       /\ fsCall.args.startLine # None => fsCall.args.startLine.v <= i
                       /\ fsCall.args.endLine # None => i <= fsCall.args.endLine.v}
    IN [k \in 1..Cardinality(inRange) |->
           Chomp(ls[CHOOSE i \in inRange : Cardinality({j \in inRange : j < i}) = k - 1])]

\* the byte limit in force for the call
LimitInForce ==
    IF fsCall.args.maxBytes # None THEN fsCall.args.maxBytes.v
    ELSE IF fsCfg.max_bytes # None THEN fsCfg.max_bytes.v
    ELSE 200000

C23_DenyCheckedBeforeIO ==
    (ReadFileCalled /\ ~LeavesWorkdir /\ MatchesDeny(RelSegs(CallTargetSegs), fsCfg.deny))
        => /\ fsResult = Text("AccessDeniedByPolicy", fsCall.path)
           /\ fsIO = <<>>

\* a search_in_files call that returned match lines
SearchMatched ==
    /\ fsCall # Idle
    /\ fsCall.tool = "search_in_files"
    /\ IsText(fsResult)
    /\ fsResult.tag = "Matches"

\* C24: search_in_files never returns more than max_matches match lines,
\* whatever integer max_matches is (zero included).
C24_AtMostMaxMatches ==
    SearchMatched => Len(fsResult.lines) <= fsCall.args.maxMatches

\* the context/added lines before patch line i that lie in a hunk
CountedInHunks(ls, i) == {k \in 1..(i - 1) : IsCountedLine(ls[k]) /\ InHunk(ls, k)}

\* C25: while the scan runs, the cursor is unset exactly when the last '@@'
\* line seen does not parse as a hunk header or none has been seen yet, and
\* the counter holds the number of context/added lines seen inside hunks
\* only: content lines before the first header, or after a '@@' line that
\* fails to parse, add nothing; and a returned position always comes from a
\* context/added line inside a hunk.
C25_ContentOutsideHunksIgnored ==
    /\ scanPc = "scan" =>
           /\ (newLineCur = None) <=> ~InHunk(patchLines, idx)
           /\ pos = Cardinality(CountedInHunks(patchLines, idx))
    /\ (Scanned /\ reviewPosition # None) =>
           /\ IsCountedLine(patchLines[idx])
           /\ InHunk(patchLines, idx)
           /\ reviewPosition = PyInt(Cardinality(CountedInHunks(patchLines, idx)) + 1)

\* the scan has passed a counted line in a hunk, then a '@@' line that does
\* not parse, then a content line that was not counted
C25_Witness ==
    /\ scanPc = "scan"
    /\ Len(patchLines) = 4
    /\ idx = 5
    /\ HunkNewStart(patchLines[1]) # None
    /\ IsCountedLine(patchLines[2])
    /\ IsHeaderLine(patchLines[3]) /\ HunkNewStart(patchLines[3]) = None
    /\ IsCountedLine(patchLines[4])
    /\ pos = 1
    /\ newLineCur = None

\* old-file numberings a hunk header can carry: start alone, start and length
OldNumberings == {<<"3">>, <<"1", "2", ",", "0">>, <<"0", ",", "4">>}

\* a hunk header with its old-file numbers replaced; any other line as it is
WithOldNumbers(raw, old) ==
    IF IsHeaderLine(raw) /\ HunkNewStart(raw) # None
    THEN SubSeq(raw, 1, 4) \o old \o SubSeq(raw, OptLenEnd(raw, DigitsEnd(raw, 5)), Len(raw))
    ELSE raw

Renumbered(ls, old) == [k \in 1..Len(ls) |-> WithOldNumbers(ls[k], old)]

\* C26: the position computed for a patch is the position computed for
\* every patch that differs from it only in the old-file start/length
\* numbers of its hunk headers, for the same target line (the same position,
\* or no position for both).
C26_IndependentOfOldNumbering ==
    Scanned =>
        \A old \in OldNumberings :
            ScanFrom(Renumbered(patchLines, old), 1, line, ScanState(0, None, None))
                = reviewPosition

\* a position was found in a patch whose renumbered variants differ from it
C26_Witness ==
    /\ Scanned
    /\ reviewPosition # None
    /\ \A old \in OldNumberings : Renumbered(patchLines, old) # patchLines
    /\ \E k \in 1..Len(patchLines) :
           /\ HunkNewStart(patchLines[k]) # None
           /\ HunkOldStart(patchLines[k]) # HunkNewStart(patchLines[k])

\* the messages for environment, event-file, payload and repository/PR-fetch
\* errors
ReviewErrorTags ==
    {"MissingEnvironmentVariables", "EventFileNotFound", "InvalidInputJson",
     "ExpectedJsonObject", "FileFieldRequired", "LineFieldRequired", "CommentFieldRequired",
     "PermissionDeniedReadingEvent", "InvalidJsonInEvent", "FailedToDeterminePrNumber",
     "GitHubApiErrorFetching", "FailedToInitializeClient"}

CreateCalls == {i \in 1..Len(apiLog) : apiLog[i] \in {"create_comment", "create_issue_comment"}}

\* C27: one invocation of post_review_comment creates at most one comment on
\* the pull request, inline or general, and creates none (and attempts none)
\* when it returns an environment, event-file, payload-validation or
\* repository/PR-fetch error.
C27_AtMostOneComment ==
    Posting =>
        /\ Len(prComments) <= 1
        /\ (IsText(ghResult) /\ ghResult.tag \in ReviewErrorTags) =>
               (prComments = <<>> /\ CreateCalls = {})
        /\ (IsText(ghResult) /\ ghResult.tag = "CommentAdded") =>
               (Len(prComments) = 1 /\ prComments[1].kind = "inline")
        /\ (IsText(ghResult) /\ ghResult.tag \in {"InlineFailedGeneralAdded", "NoPositionGeneralAdded"}) =>
               (Len(prComments) = 1 /\ prComments[1].kind = "general")

\* both creating calls were made in one invocation, the inline one failed,
\* and exactly the general comment exists
C27_Witness ==
    /\ Posting
    /\ Cardinality(CreateCalls) = 2
    /\ ~ghCall.api.inlineOk
    /\ Len(prComments) = 1
    /\ prComments[1].kind = "general"

\* C28: an invocation of post_review_comment that reaches the fallback
\* general comment returns a text message, also when the call that creates
\* the general comment fails.
C28_FallbackNeverRaises ==
    (Posting /\ InSeq("create_issue_comment", apiLog)) => IsText(ghResult)

\* the call's target lies beneath a directory of the workdir whose relative
\* path or name matches a deny pattern
BeneathDeniedDir ==
    /\ ~LeavesWorkdir
    /\ \E n \in 1..(Len(RelSegs(CallTargetSegs)) - 1) :
           LET dir == SubSeq(CallTargetSegs, 1, Len(WorkdirSegs) + n)
           IN /\ dir \in DOMAIN fs
              /\ fs[dir].kind = "dir"
              /\ MatchesDeny(RelSegs(dir), fsCfg.deny)

\* C29: read_file refuses, by the deny policy, every file that lies beneath
\* a directory matching a deny pattern.
C29_DeniedDirProtectsSubtree ==
    (ReadFileCalled /\ BeneathDeniedDir /\ CallTargetSegs \in DOMAIN fs
         /\ fs[CallTargetSegs].kind = "file")
        => fsResult = Text("AccessDeniedByPolicy", fsCall.path)

\* the model default: 1.0 for gpt-5 models, 0.7 for the others
DefaultTemperature(model) ==
    IF Contains(model, Gpt5) THEN PyFloat(DefaultTempGpt5) ELSE PyFloat(DefaultTempOther)

\* C30: the language model is constructed with the caller's temperature
\* whenever one is given (0.0 included), and with the model default only
\* when none is given.
C30_CallerTemperatureUsed ==
    agentPc = "llm" =>
        llmTemperature = (IF agentArgs.temperature # None THEN agentArgs.temperature
                          ELSE DefaultTemperature(agentArgs.model))

====
